---- MODULE Spec2Model ----
(***************************************************************************)
(* Model of the layout engine of src/layout.go (package gi): the size      *)
(* model (SizePrefs / LayoutData), the Layout container with its two      *)
(* passes (Size2D gathers bottom-up, Layout2D allocates top-down), grid    *)
(* tracks, overflow and scrolling, and the SplitView proportional splits.  *)
(*                                                                         *)
(* float64 values are modelled bit for bit: every operation gives the      *)
(* float64 nearest to its exact result (ties to even), with NaN and the    *)
(* infinities.  The sign of a zero is not kept.                            *)
(***************************************************************************)
EXTENDS Integers, Sequences, FiniteSets, TLC

VARIABLES
    Lay,          \* Layout.Lay: the kind of layout
    Style,        \* the container's resolved style (Style.Layout, BoxSpace, Font)
    LayData,      \* the container's LayoutData
    Kids,         \* ly.Kids: the ordered children, each with its style and LayoutData
    ChildSize,    \* Layout.ChildSize
    ExtraSize,    \* Layout.ExtraSize
    HasHScroll,   \* Layout.HasHScroll
    HasVScroll,   \* Layout.HasVScroll
    HScroll,      \* Layout.HScroll: NoScroll (nil) or the scrollbar's fields
    VScroll,      \* Layout.VScroll
    GridSize,     \* Layout.GridSize <<cols, rows>>
    GridData,     \* Layout.GridData: [Row |-> tracks, Col |-> tracks]
    StackTop,     \* Layout.StackTop: 0 (nil) or the index of the shown child
    Updating,     \* the node's update-depth counter (Updating.Value())
    Splits,       \* SplitView.Splits
    SavedSplits,  \* SplitView.SavedSplits: NilSplits or the saved sequence
    pc,           \* where the node is in its passes, or "panic" after a run-time panic
    nops,         \* the number of operations performed so far on the SplitView
    hist          \* the last operation performed, with its arguments and pre-state

vars == <<Lay, Style, LayData, Kids, ChildSize, ExtraSize, HasHScroll, HasVScroll,
          HScroll, VScroll, GridSize, GridData, StackTop, Updating, Splits,
          SavedSplits, pc, nops, hist>>

layoutVars == <<Lay, Style, LayData, Kids, ChildSize, ExtraSize, HasHScroll,
                HasVScroll, HScroll, VScroll, GridSize, GridData, StackTop>>

splitVars == <<Splits, SavedSplits>>

\* the bounds of the model
MaxKids == 2

MaxRowKids == 3

MaxGridKids == 7

MaxSingleKids == 2

MaxSplitKids == 3

MaxSplitOps == 4

MaxUpdating == 1

\* LayoutStyle.Defaults: ScrollBarWidth.Set(16.0, units.Px)
ScrollBarWidthDots == 16

-----------------------------------------------------------------------------
(* Natural numbers beyond the range of 32-bit integers: little-endian
   sequences of 15-bit limbs, with no zero limb at the top; <<>> is 0 *)

B15 == 2^15

Sgn(n) == IF n < 0 THEN -1 ELSE IF n > 0 THEN 1 ELSE 0

Abs(n) == IF n < 0 THEN -n ELSE n

MaxInt(a, b) == IF a > b THEN a ELSE b

Limb(a, i) == IF i <= Len(a) THEN a[i] ELSE 0

RECURSIVE NTrim(_)
NTrim(a) ==
    IF a = <<>> THEN a
    ELSE IF a[Len(a)] = 0 THEN NTrim(SubSeq(a, 1, Len(a) - 1))
    ELSE a

\* the limbs of n, 0 <= n < 2^31
NOfInt(n) ==
    IF n = 0 THEN <<>>
    ELSE IF n < B15 THEN <<n>>
    ELSE IF n < B15 * B15 THEN <<n % B15, n \div B15>>
    ELSE <<n % B15, (n \div B15) % B15, n \div (B15 * B15)>>

\* the integer of at most two limbs
NToInt(a) == Limb(a, 1) + B15 * Limb(a, 2)

\* a + b + c from limb i on, c the carry
RECURSIVE NAddC(_, _, _, _)
NAddC(a, b, i, c) ==
    IF i > Len(a) /\ i > Len(b) THEN (IF c = 0 THEN <<>> ELSE <<c>>)
    ELSE <<(Limb(a, i) + Limb(b, i) + c) % B15>>
             \o NAddC(a, b, i + 1, (Limb(a, i) + Limb(b, i) + c) \div B15)

NAdd(a, b) == NAddC(a, b, 1, 0)

\* a - b - br from limb i on, for a >= b
RECURSIVE NSubC(_, _, _, _)
NSubC(a, b, i, br) ==
    IF i > Len(a) THEN <<>>
    ELSE <<(a[i] - Limb(b, i) - br + B15) % B15>>
             \o NSubC(a, b, i + 1, IF a[i] - Limb(b, i) - br < 0 THEN 1 ELSE 0)

NSub(a, b) == NTrim(NSubC(a, b, 1, 0))

RECURSIVE NCmpAt(_, _, _)
NCmpAt(a, b, i) ==
    IF i = 0 THEN 0
    ELSE IF a[i] < b[i] THEN -1
    ELSE IF a[i] > b[i] THEN 1
    ELSE NCmpAt(a, b, i - 1)

\* -1, 0 or 1 as a is below, equal to or above b
NCmp(a, b) ==
    IF Len(a) < Len(b) THEN -1
    ELSE IF Len(a) > Len(b) THEN 1
    ELSE NCmpAt(a, b, Len(a))

\* a * x + c from limb i on, for a limb x
RECURSIVE NMulLimbC(_, _, _, _)
NMulLimbC(a, x, i, c) ==
    IF i > Len(a) THEN (IF c = 0 THEN <<>> ELSE <<c>>)
    ELSE <<(a[i] * x + c) % B15>> \o NMulLimbC(a, x, i + 1, (a[i] * x + c) \div B15)

\* a * B15^k
NShlLimbs(a, k) == IF a = <<>> THEN a ELSE [i \in 1..k |-> 0] \o a

RECURSIVE NMulFrom(_, _, _)
NMulFrom(a, b, j) ==
    IF j > Len(b) THEN <<>>
    ELSE NAdd(NShlLimbs(NMulLimbC(a, b[j], 1, 0), j - 1), NMulFrom(a, b, j + 1))

NMul(a, b) == NTrim(NMulFrom(a, b, 1))

\* a * 2^k
NShl(a, k) == NShlLimbs(NMulLimbC(a, 2^(k % 15), 1, 0), k \div 15)

\* the quotient limbs of a by a limb x, from limb i down, r the remainder so far
RECURSIVE NDivLimbAt(_, _, _, _)
NDivLimbAt(a, x, i, r) ==
    IF i = 0 THEN <<>>
    ELSE NDivLimbAt(a, x, i - 1, (r * B15 + a[i]) % x) \o <<(r * B15 + a[i]) \div x>>

NDivLimb(a, x) == NTrim(NDivLimbAt(a, x, Len(a), 0))

RECURSIVE NModLimbAt(_, _, _, _)
NModLimbAt(a, x, i, r) ==
    IF i = 0 THEN r ELSE NModLimbAt(a, x, i - 1, (r * B15 + a[i]) % x)

NModLimb(a, x) == NModLimbAt(a, x, Len(a), 0)

\* floor(a / 2^k)
NShr(a, k) ==
    IF k \div 15 >= Len(a) THEN <<>>
    ELSE NDivLimb(SubSeq(a, k \div 15 + 1, Len(a)), 2^(k % 15))

\* bit i of a, bit 0 the lowest
NBit(a, i) == (Limb(a, i \div 15 + 1) \div 2^(i % 15)) % 2

\* is any of the bits 0 .. k-1 of a set
NLowBits(a, k) ==
    \/ \E i \in 1..Len(a) : i <= k \div 15 /\ a[i] # 0
    \/ Limb(a, k \div 15 + 1) % 2^(k % 15) # 0

\* the number of bits of a limb x > 0
LimbBits(x) == CHOOSE k \in 1..15 : 2^(k - 1) <= x /\ x < 2^k

NBitLen(a) == IF a = <<>> THEN 0 ELSE 15 * (Len(a) - 1) + LimbBits(a[Len(a)])

\* the number of zero bits at the bottom of a > 0
LimbZeros(x) == CHOOSE k \in 0..14 : x % 2^k = 0 /\ x % 2^(k + 1) # 0

FirstLimb(a) == CHOOSE i \in 1..Len(a) : a[i] # 0 /\ \A j \in 1..(i - 1) : a[j] = 0

NZeros(a) == 15 * (FirstLimb(a) - 1) + LimbZeros(a[FirstLimb(a)])

\* one step of the long division of num by d: st is <<quotient, remainder>>
\* so far, twice the remainder with bit i of num brought down
NDivStep(d, st, twice) ==
    IF NCmp(twice, d) >= 0
    THEN <<NAddC(st[1], st[1], 1, 1), NSub(twice, d)>>
    ELSE <<NAddC(st[1], st[1], 1, 0), twice>>

\* the long division over the bits hi-1 .. lo of num: the upper half of the
\* bits first, then the lower half from its result
RECURSIVE NDivBits(_, _, _, _, _)
NDivBits(num, d, st, hi, lo) ==
    IF hi = lo THEN st
    ELSE IF hi = lo + 1
    THEN NDivStep(d, st, NAddC(st[2], st[2], 1, NBit(num, lo)))
    ELSE CHOOSE r \in {NDivBits(num, d, half, (hi + lo) \div 2, lo) :
                        half \in {NDivBits(num, d, st, hi, (hi + lo) \div 2)}} : TRUE

\* <<quotient, remainder>> of num by d > 0
NDivFrom(num, d, t) == NDivBits(num, d, <<<<>>, NShr(num, t)>>, t, 0)

NDivMod(num, d) ==
    IF Len(d) = 1 THEN <<NDivLimb(num, d[1]), NOfInt(NModLimb(num, d[1]))>>
    ELSE NDivFrom(num, d, MaxInt(0, NBitLen(num) - NBitLen(d) + 1))

-----------------------------------------------------------------------------
(* float64.  A finite value that is k / 2^j with |k| < 2^30 and j <= 30 is
   the pair <<k, 2^j>> in lowest terms; any other finite value is
   <<s, m, e>>, the number s * m * 2^e with s the sign, m the odd mantissa
   in limbs (below 2^53) and e the exponent.  <<0, 0>> is NaN, <<1, 0>> is
   +Inf and <<-1, 0>> is -Inf.  Every operation rounds its exact result to
   the nearest float64, ties to even, as the hardware does. *)

NaN == <<0, 0>>

PosInf == <<1, 0>>

Rat(n) == <<n, 1>>

Zero == Rat(0)

IsFinite(a) == Len(a) = 3 \/ a[2] # 0

\* sign, mantissa and exponent of a finite value
FSign(a) == IF Len(a) = 3 THEN a[1] ELSE Sgn(a[1])

FMant(a) == IF Len(a) = 3 THEN a[2] ELSE NOfInt(Abs(a[1]))

FExp(a) == IF Len(a) = 3 THEN a[3] ELSE -(CHOOSE j \in 0..30 : 2^j = a[2])

\* the float64 s * m * 2^e for an odd m below 2^53: overflow gives an infinity
FPackOdd(s, m, e) ==
    IF NBitLen(m) + e > 1024 THEN <<s, 0>>
    ELSE IF NBitLen(m) <= 30 /\ e <= 0 /\ e >= -30 THEN <<s * NToInt(m), 2^(-e)>>
    ELSE IF e > 0 /\ NBitLen(m) + e <= 30 THEN <<s * NToInt(m) * 2^e, 1>>
    ELSE <<s, m, e>>

FPack(s, m, e) ==
    IF m = <<>> THEN Zero ELSE FPackOdd(s, NShr(m, NZeros(m)), e + NZeros(m))

\* m with its k low bits rounded away, ties to even
FRoundBits(m, k) ==
    IF NBit(m, k - 1) = 1 /\ (NLowBits(m, k - 1) \/ NBit(m, k) = 1)
    THEN NAddC(NShr(m, k), <<>>, 1, 1)
    ELSE NShr(m, k)

FRoundAt(s, m, e, k) == IF k <= 0 THEN FPack(s, m, e) ELSE FPack(s, FRoundBits(m, k), e + k)

\* the float64 nearest to s * m * 2^e: 53 bits, fewer below 2^-1022
FRound(s, m, e) == FRoundAt(s, m, e, MaxInt(NBitLen(m) - 53, -1074 - e))

\* are the parts of the pair a small enough for its sums and products to fit
FSmall(a) == Len(a) = 2 /\ Abs(a[1]) < 16384 /\ a[2] <= 16384

\* n / d for d a power of two, in lowest terms
RECURSIVE FLowest(_, _)
FLowest(n, d) == IF d > 1 /\ n % 2 = 0 THEN FLowest(n \div 2, d \div 2) ELSE <<n, d>>

FAlignedAdd(sa, ma, sb, mb, e) ==
    IF sa = sb THEN FRound(sa, NAdd(ma, mb), e)
    ELSE IF NCmp(ma, mb) >= 0 THEN FRound(sa, NSub(ma, mb), e)
    ELSE FRound(sb, NSub(mb, ma), e)

\* the position of the top bit of a finite value other than 0
FTop(a) == NBitLen(FMant(a)) + FExp(a)

\* a value 55 bits or more below the other does not change the rounded sum
FAddBig(a, b, e) ==
    IF FTop(a) - FTop(b) >= 56 THEN a
    ELSE IF FTop(b) - FTop(a) >= 56 THEN b
    ELSE FAlignedAdd(FSign(a), NShl(FMant(a), FExp(a) - e), FSign(b), NShl(FMant(b), FExp(b) - e), e)

RAdd(a, b) ==
    IF IsFinite(a) /\ IsFinite(b)
    THEN IF a = Zero THEN b
         ELSE IF b = Zero THEN a
         ELSE IF FSmall(a) /\ FSmall(b)
         THEN FLowest(a[1] * b[2] + b[1] * a[2], a[2] * b[2])
         ELSE FAddBig(a, b, IF FExp(a) < FExp(b) THEN FExp(a) ELSE FExp(b))
    ELSE IF IsFinite(a) THEN b
    ELSE IF IsFinite(b) \/ a = b THEN a
    ELSE NaN

RNeg(a) == IF Len(a) = 3 THEN <<-a[1], a[2], a[3]>> ELSE <<-a[1], a[2]>>

RSub(a, b) == RAdd(a, RNeg(b))

RMul(a, b) ==
    IF IsFinite(a) /\ IsFinite(b)
    THEN IF a = Zero \/ b = Zero THEN Zero
         ELSE IF FSmall(a) /\ FSmall(b) THEN FLowest(a[1] * b[1], a[2] * b[2])
         ELSE FRound(FSign(a) * FSign(b), NMul(FMant(a), FMant(b)), FExp(a) + FExp(b))
    ELSE IF a = NaN \/ b = NaN THEN NaN
    ELSE <<FSign(a) * FSign(b), 0>>

\* the quotient with a last bit that tells whether the division left a remainder
FQuotient(s, qr, e) == FRound(s, NAddC(qr[1], qr[1], 1, IF qr[2] = <<>> THEN 0 ELSE 1), e - 1)

FDivBig(a, b, k) ==
    FQuotient(FSign(a) * FSign(b), NDivMod(NShl(FMant(a), k), FMant(b)),
              FExp(a) - FExp(b) - k)

\* d without its factors of two
RECURSIVE FOdd(_)
FOdd(d) == IF d % 2 = 0 THEN FOdd(d \div 2) ELSE d

\* n / (d * odd * twos) where odd divides n
FDivExact(n, d, odd, twos) == FLowest(n \div odd, d * twos)

RDiv(a, b) ==
    IF IsFinite(a) /\ IsFinite(b)
    THEN IF b = Zero THEN <<Sgn(a[1]), 0>>
         ELSE IF a = Zero THEN Zero
         ELSE IF FSmall(a) /\ FSmall(b) /\ (Abs(a[1]) * b[2]) % FOdd(Abs(b[1])) = 0
         THEN FDivExact(Sgn(b[1]) * a[1] * b[2], a[2], FOdd(Abs(b[1])),
                        Abs(b[1]) \div FOdd(Abs(b[1])))
         ELSE FDivBig(a, b, MaxInt(0, 56 + NBitLen(FMant(b)) - NBitLen(FMant(a))))
    ELSE IF a = NaN \/ b = NaN THEN NaN
    ELSE IF IsFinite(b) THEN <<IF FSign(b) < 0 THEN -a[1] ELSE a[1], 0>>
    ELSE IF IsFinite(a) THEN Zero
    ELSE NaN

\* a < b for finite a and b of the same sign s # 0
FLtMag(ma, mb, s) == IF s > 0 THEN NCmp(ma, mb) < 0 ELSE NCmp(ma, mb) > 0

FLtBig(a, b, e) ==
    IF FTop(a) # FTop(b) THEN (FTop(a) < FTop(b)) = (FSign(a) > 0)
    ELSE FLtMag(NShl(FMant(a), FExp(a) - e), NShl(FMant(b), FExp(b) - e), FSign(a))

\* the comparisons of float64: every comparison with NaN is false
RLt(a, b) ==
    IF IsFinite(a) /\ IsFinite(b)
    THEN IF FSign(a) # FSign(b) THEN FSign(a) < FSign(b)
         ELSE IF FSign(a) = 0 THEN FALSE
         ELSE IF FSmall(a) /\ FSmall(b) THEN a[1] * b[2] < b[1] * a[2]
         ELSE FLtBig(a, b, IF FExp(a) < FExp(b) THEN FExp(a) ELSE FExp(b))
    ELSE IF IsFinite(a) THEN b[1] > 0
    ELSE IF IsFinite(b) THEN a[1] < 0
    ELSE a[1] < 0 /\ b[1] > 0

RGt(a, b) == RLt(b, a)

RLe(a, b) == a # NaN /\ b # NaN /\ (a = b \/ RLt(a, b))

RGe(a, b) == RLe(b, a)

\* math.Max: +Inf if either argument is +Inf, else NaN if either is NaN
RMax(a, b) ==
    IF a = <<1, 0>> \/ b = <<1, 0>> THEN <<1, 0>>
    ELSE IF a = NaN \/ b = NaN THEN NaN
    ELSE IF RLt(a, b) THEN b ELSE a

\* math.Min: -Inf if either argument is -Inf, else NaN if either is NaN
RMin(a, b) ==
    IF a = <<-1, 0>> \/ b = <<-1, 0>> THEN <<-1, 0>>
    ELSE IF a = NaN \/ b = NaN THEN NaN
    ELSE IF RLt(b, a) THEN b ELSE a

\* the float64 division of the integers n and d
Norm(n, d) == RDiv(Rat(n), Rat(d))

\* int(math.Sqrt(float64(n))) for n >= 0: the largest k with k * k <= n
ISqrt(n) == CHOOSE k \in 0..n : k * k <= n /\ (k + 1) * (k + 1) > n

-----------------------------------------------------------------------------
(* Vec2D and Dims2D *)

X == "X"

Y == "Y"

OtherDim(d) == IF d = X THEN Y ELSE X

NewVec2D(x, y) == [X |-> x, Y |-> y]

Vec(x, y) == NewVec2D(Rat(x), Rat(y))

Vec2DZero == Vec(0, 0)

VecAdd(a, b) == NewVec2D(RAdd(a.X, b.X), RAdd(a.Y, b.Y))

VecSub(a, b) == NewVec2D(RSub(a.X, b.X), RSub(a.Y, b.Y))

VecMax(a, b) == NewVec2D(RMax(a.X, b.X), RMax(a.Y, b.Y))

VecAddVal(a, v) == NewVec2D(RAdd(a.X, v), RAdd(a.Y, v))

VecSubVal(a, v) == NewVec2D(RSub(a.X, v), RSub(a.Y, v))

VecIsZero(a) == a = Vec2DZero

SetMaxDim(a, d, v) == [a EXCEPT ![d] = RMax(a[d], v)]

\* a.SetMinPos(b) on one axis, the clamp of a size a by a maximum b.  Vec2D is
\* not part of this source, so the method is taken from what is written about
\* it: sizes are clamped "whenever Max >= 0" (spec, Size Model), a maximum of
\* 0 included, and a negative maximum, which marks a stretchy axis, never
\* clamps.  The clamp is the minimum: a size already within the maximum, one
\* that is 0 included, is left as it is.
MinPos(a, b) == IF RGe(b, Zero) THEN RMin(a, b) ELSE a

VecMinPos(a, b) == NewVec2D(MinPos(a.X, b.X), MinPos(a.Y, b.Y))

-----------------------------------------------------------------------------
(* Align and Overflow *)

AlignLeft == "AlignLeft"
AlignTop == "AlignTop"
AlignCenter == "AlignCenter"
AlignMiddle == "AlignMiddle"
AlignRight == "AlignRight"
AlignBottom == "AlignBottom"
AlignBaseline == "AlignBaseline"
AlignJustify == "AlignJustify"
AlignSpaceAround == "AlignSpaceAround"
AlignFlexStart == "AlignFlexStart"
AlignFlexEnd == "AlignFlexEnd"
AlignTextTop == "AlignTextTop"
AlignTextBottom == "AlignTextBottom"
AlignSub == "AlignSub"
AlignSuper == "AlignSuper"

IsAlignStart(a) ==
    a = AlignLeft \/ a = AlignTop \/ a = AlignFlexStart \/ a = AlignTextTop

IsAlignMiddle(a) == a = AlignCenter \/ a = AlignMiddle

IsAlignEnd(a) ==
    a = AlignRight \/ a = AlignBottom \/ a = AlignFlexEnd \/ a = AlignTextBottom

OverflowAuto == "OverflowAuto"
OverflowScroll == "OverflowScroll"
OverflowVisible == "OverflowVisible"
OverflowHidden == "OverflowHidden"

\* LayoutStyle.AlignDim
AlignDim(ls, d) == IF d = X THEN ls.AlignH ELSE ls.AlignV

-----------------------------------------------------------------------------
(* SizePrefs and LayoutData *)

HasMaxStretch(sp, d) == RLt(sp.Max[d], Zero)

CanStretchNeed(sp, d) == RGt(sp.Pref[d], sp.Need[d])

ZeroSize == [Need |-> Vec2DZero, Pref |-> Vec2DZero, Max |-> Vec2DZero]

ZeroLayData ==
    [Size |-> ZeroSize, AllocSize |-> Vec2DZero, AllocPos |-> Vec2DZero,
     AllocPosRel |-> Vec2DZero, AllocPosOrig |-> Vec2DZero]

Reset(ld) ==
    [ld EXCEPT !.AllocSize = Vec2DZero, !.AllocPos = Vec2DZero,
               !.AllocPosRel = Vec2DZero, !.AllocPosOrig = Vec2DZero]

SetFromStyle(ld, ls) ==
    [Reset(ld) EXCEPT !.Size = [Need |-> ls.Min, Pref |-> ls.Size, Max |-> ls.Max],
                      !.AllocPos = ls.Pos]

\* a slip that forgets to raise Pref to Need
UpdateSizesNoPrefFloor(ld) ==
    LET need1 == VecMax(ld.Size.Need, ld.AllocSize)
        need2 == VecMinPos(need1, ld.Size.Max)
        pref2 == VecMinPos(ld.Size.Pref, ld.Size.Max)
    IN  [ld EXCEPT !.Size.Need = need2, !.Size.Pref = pref2]

UpdateSizes(ld) ==
    LET need1 == VecMax(ld.Size.Need, ld.AllocSize)
        pref1 == VecMax(ld.Size.Pref, need1)
        need2 == VecMinPos(need1, ld.Size.Max)
        pref2 == VecMinPos(pref1, ld.Size.Max)
    IN  [ld EXCEPT !.Size.Need = need2, !.Size.Pref = pref2]

-----------------------------------------------------------------------------
(* The styles and children the model draws from *)

\* the sequences over S of length 0..n
RECURSIVE SeqsUpTo(_, _)
SeqsUpTo(S, n) ==
    IF n = 0 THEN {<<>>}
    ELSE LET shorter == SeqsUpTo(S, n - 1)
         IN  shorter \cup {Append(q, e) : q \in {r \in shorter : Len(r) = n - 1}, e \in S}

\* a child's style: min, size and max the same on both axes
KidStyle(min, size, max, alH, alV) ==
    [Min |-> Vec(min, min), Size |-> Vec(size, size), Max |-> Vec(max, max),
     Pos |-> Vec2DZero, AlignH |-> alH, AlignV |-> alV,
     Col |-> 0, Row |-> 0, ColSpan |-> 0, RowSpan |-> 0, Content |-> Vec2DZero]

Kid(st) == [node |-> TRUE, St |-> st, LD |-> ZeroLayData]

\* a child that is no 2D node
NilKid == [node |-> FALSE, St |-> KidStyle(0, 0, 0, AlignLeft, AlignTop), LD |-> ZeroLayData]

KFix10 == Kid(KidStyle(10, 10, 0, AlignLeft, AlignTop))

KFix20 == Kid(KidStyle(20, 20, 0, AlignLeft, AlignTop))

KStr10 == Kid(KidStyle(0, 10, -1, AlignLeft, AlignTop))

KStr30 == Kid(KidStyle(0, 30, -1, AlignLeft, AlignTop))

KStr0 == Kid(KidStyle(0, 0, -1, AlignLeft, AlignTop))

KShrink == Kid(KidStyle(5, 15, 0, AlignLeft, AlignTop))

KMaxed == Kid(KidStyle(10, 5, 8, AlignLeft, AlignTop))

KBounded == Kid(KidStyle(5, 15, 20, AlignCenter, AlignMiddle))

KText == Kid([KidStyle(2, 0, 0, AlignLeft, AlignTop) EXCEPT !.Content = Vec(12, 8)])

SplitKid == KFix10

\* the container's style
LayStyle(size, alH, alV, spc, ovf, cols) ==
    [Min |-> Vec2DZero, Size |-> Vec(size, size), Max |-> Vec2DZero, Pos |-> Vec2DZero,
     AlignH |-> alH, AlignV |-> alV, Overflow |-> ovf, Columns |-> cols,
     BoxSpace |-> Rat(spc), ScrollBarWidth |-> Rat(ScrollBarWidthDots),
     FontSize |-> Rat(12), Dim |-> X]

AlignPairs ==
    {<<AlignLeft, AlignTop>>, <<AlignCenter, AlignMiddle>>,
     <<AlignRight, AlignBottom>>, <<AlignJustify, AlignJustify>>}

ParAlloc(w, h, x, y) == [Size |-> Vec(w, h), PosRel |-> Vec(x, y)]

NoGrid == [Row |-> <<>>, Col |-> <<>>]

-----------------------------------------------------------------------------
(* Layout: the kinds of layout and the first pass, gathering sizes *)

LayoutRow == "LayoutRow"
LayoutCol == "LayoutCol"
LayoutGrid == "LayoutGrid"
LayoutStacked == "LayoutStacked"

\* do we sum up elements along given dimension?  else max
SumDim(lay, d) == (d = X /\ lay = LayoutRow) \/ (d = Y /\ lay = LayoutCol)

\* KiToNode2D(c): gi is nil for a child that is no 2D node
IsNode(k) == k.node

\* the indexes of the children that take part, in order
NodeIdx(kids) == {i \in DOMAIN kids : IsNode(kids[i])}

RECURSIVE VecSumTo(_, _, _)
VecSumTo(f, kids, i) ==
    IF i = 0 THEN Vec2DZero
    ELSE IF IsNode(kids[i]) THEN VecAdd(VecSumTo(f, kids, i - 1), f[i])
    ELSE VecSumTo(f, kids, i - 1)

RECURSIVE VecMaxTo(_, _, _)
VecMaxTo(f, kids, i) ==
    IF i = 0 THEN Vec2DZero
    ELSE IF IsNode(kids[i]) THEN VecMax(VecMaxTo(f, kids, i - 1), f[i])
    ELSE VecMaxTo(f, kids, i - 1)

\* gi.LayData.UpdateSizes() on every child that takes part
KidsUpdateSizes(kids) ==
    [i \in DOMAIN kids |->
        IF IsNode(kids[i]) THEN [kids[i] EXCEPT !.LD = UpdateSizes(@)] ELSE kids[i]]

\* a slip that takes the max along every dimension
AggDimMax(lay, d, sum, max) == max[d]

\* the aggregate of the children's sizes along d: the sum or the max
AggDim(lay, d, sum, max) == IF SumDim(lay, d) THEN sum[d] ELSE max[d]

\* ly.LayData.Size.Need.SetMaxDim(d, aggregate) for both dimensions
AggMax(lay, own, sum, max) ==
    NewVec2D(RMax(own.X, AggDim(lay, X, sum, max)), RMax(own.Y, AggDim(lay, Y, sum, max)))

Needs(ks) == [i \in DOMAIN ks |-> ks[i].LD.Size.Need]

Prefs(ks) == [i \in DOMAIN ks |-> ks[i].LD.Size.Pref]

\* the container's Need and Pref after the aggregation and the box spacing,
\* before the final UpdateSizes
GatherAggregate(lay, style, ld, ks) ==
    [ld EXCEPT
        !.Size.Need = VecAddVal(AggMax(lay, @, VecSumTo(Needs(ks), ks, Len(ks)),
                                       VecMaxTo(Needs(ks), ks, Len(ks))),
                                RMul(Rat(2), style.BoxSpace)),
        !.Size.Pref = VecAddVal(AggMax(lay, @, VecSumTo(Prefs(ks), ks, Len(ks)),
                                       VecMaxTo(Prefs(ks), ks, Len(ks))),
                                RMul(Rat(2), style.BoxSpace))]

Gathered(lay, style, ld, ks) ==
    [LayData |-> UpdateSizes(GatherAggregate(lay, style, ld, ks)), Kids |-> ks]

\* a slip that gathers even without children
GatherSizesNoSkip(lay, style, ld, kids) == Gathered(lay, style, ld, KidsUpdateSizes(kids))

\* first pass: gather the size information from the children
GatherSizes(lay, style, ld, kids) ==
    IF Len(kids) = 0 THEN [LayData |-> ld, Kids |-> kids]
    ELSE Gathered(lay, style, ld, KidsUpdateSizes(kids))

-----------------------------------------------------------------------------
(* Layout: gathering sizes, grid version *)

MinInt(a, b) == IF a < b THEN a ELSE b

\* cols and rows as the explicit settings of the children give them
RECURSIVE GridExplicit(_, _, _, _)
GridExplicit(kids, i, cols, rows) ==
    IF i > Len(kids) THEN <<cols, rows>>
    ELSE IF ~IsNode(kids[i]) THEN GridExplicit(kids, i + 1, cols, rows)
    ELSE LET lst == kids[i].St
             c   == IF lst.Col > 0 THEN MaxInt(cols, lst.Col + lst.ColSpan) ELSE cols
             r   == IF lst.Row > 0 THEN MaxInt(rows, lst.Row + lst.RowSpan) ELSE rows
         IN  GridExplicit(kids, i + 1, c, r)

\* for rows*cols < sz { rows++ }
RECURSIVE GrowRows(_, _, _)
GrowRows(rows, cols, sz) ==
    IF rows * cols < sz THEN GrowRows(rows + 1, cols, sz) ELSE rows

\* a square root rounded up instead of truncated
GridColsCeil(ex, sz) == IF ex[1] = 0 THEN ISqrt(sz - 1) + 1 ELSE ex[1]

\* cols: the explicit setting, else int(math.Sqrt(float64(sz)))
GridCols(ex, sz) == IF ex[1] = 0 THEN ISqrt(sz) ELSE ex[1]

\* rows: the explicit setting, else sz / cols
GridRows0(ex, sz, cols) == IF ex[2] = 0 THEN sz \div cols ELSE ex[2]

GridDimsShortOf(ex, sz, cols) == <<cols, GridRows0(ex, sz, cols)>>

GridDimsOf(ex, sz, cols) == <<cols, GrowRows(GridRows0(ex, sz, cols), cols, sz)>>

GridDimsEx(ex, sz) == GridDimsOf(ex, sz, GridCols(ex, sz))

\* a slip in the loop's test that stops one row short
GridDimsShort(columns, kids) ==
    GridDimsShortOf(GridExplicit(kids, 1, columns, 0), Len(kids),
                    GridCols(GridExplicit(kids, 1, columns, 0), Len(kids)))

\* GridSize <<cols, rows>> (the first part of GatherSizesGrid)
GridDims(columns, kids) == GridDimsEx(GridExplicit(kids, 1, columns, 0), Len(kids))

\* make([]LayoutData, n) unless the length is unchanged, then Need and Pref zeroed
GridTracks(old, n) ==
    LET base == IF Len(old) # n THEN [i \in 1..n |-> ZeroLayData] ELSE old
    IN  [i \in 1..n |->
            [base[i] EXCEPT !.Size.Need = Vec2DZero, !.Size.Pref = Vec2DZero]]

\* the track's Need and Pref after one child: the max along the track's dimension
GridTrackNeedPref(tr, kld, d) ==
    [tr EXCEPT !.Size.Need = SetMaxDim(@, d, kld.Size.Need[d]),
               !.Size.Pref = SetMaxDim(@, d, kld.Size.Pref[d])]

\* the track's Max after one child: a stretchy child makes the track stretchy
GridTrackMax(t1, d, stretchy, max) ==
    IF RGe(t1.Size.Max[d], Zero)
    THEN IF stretchy THEN [t1 EXCEPT !.Size.Max[d] = Rat(-1)]
         ELSE [t1 EXCEPT !.Size.Max = SetMaxDim(@, d, max)]
    ELSE t1

\* the update of one row track and one column track by one child
GridRowTrack(tr, kld) ==
    GridTrackMax(GridTrackNeedPref(tr, kld, Y), Y, RLt(kld.Size.Max.Y, Zero), kld.Size.Max.Y)

GridColTrack(tr, kld) ==
    GridTrackMax(GridTrackNeedPref(tr, kld, X), X, RLt(kld.Size.Max.Y, Zero), kld.Size.Max.X)

\* a slip that fills the columns first
GridAdvanceDown(col, row, cols, rows) ==
    LET r1 == row + 1
    IN  IF r1 >= rows
        THEN <<IF col + 1 >= cols THEN 0 ELSE col + 1, 0>>
        ELSE <<col, r1>>

\* the cursor after one child: next column, wrapping to the next row, then to row 0
GridAdvance(col, row, cols, rows) ==
    LET c1 == col + 1
    IN  IF c1 >= cols
        THEN <<0, IF row + 1 >= rows THEN 0 ELSE row + 1>>
        ELSE <<c1, row>>

\* the cell a child is put in: its explicit column / row, else the cursor
GridCell(lst, col, row) ==
    <<IF lst.Col > 0 THEN lst.Col ELSE col, IF lst.Row > 0 THEN lst.Row ELSE row>>

\* the loop of GatherSizesGrid over the children, from child i with cursor (col, row);
\* an index outside a track sequence is a run-time panic, which ends the loop
RECURSIVE GridGatherLoop(_, _, _, _, _, _, _)
RECURSIVE GridGatherCell(_, _, _, _, _, _, _)
RECURSIVE GridGatherNext(_, _, _, _, _, _)
GridGatherNext(ks, i, nxt, cols, rows, gd) ==
    GridGatherLoop(ks, i + 1, nxt[1], nxt[2], cols, rows, gd)

GridGatherCell(ks, i, kld, cell, cols, rows, gd) ==
    IF cell[2] >= rows THEN [Kids |-> ks, GridData |-> gd, panic |-> TRUE]
    ELSE IF cell[1] >= cols
    THEN [Kids |-> ks, panic |-> TRUE,
          GridData |-> [gd EXCEPT !.Row[cell[2] + 1] = GridTrackNeedPref(@, kld, Y)]]
    ELSE GridGatherNext(ks, i, GridAdvance(cell[1], cell[2], cols, rows), cols, rows,
             [Row |-> [gd.Row EXCEPT ![cell[2] + 1] = GridRowTrack(@, kld)],
              Col |-> [gd.Col EXCEPT ![cell[1] + 1] = GridColTrack(@, kld)]])

GridGatherKid(kids, i, kld, col, row, cols, rows, gd) ==
    GridGatherCell([kids EXCEPT ![i].LD = kld], i, kld,
                   GridCell(kids[i].St, col, row), cols, rows, gd)

GridGatherLoop(kids, i, col, row, cols, rows, gd) ==
    IF i > Len(kids) THEN [Kids |-> kids, GridData |-> gd, panic |-> FALSE]
    ELSE IF ~IsNode(kids[i]) THEN GridGatherLoop(kids, i + 1, col, row, cols, rows, gd)
    ELSE GridGatherKid(kids, i, UpdateSizes(kids[i].LD), col, row, cols, rows, gd)

RECURSIVE TrackSum(_, _, _, _)
TrackSum(tracks, i, d, pref) ==
    IF i = 0 THEN Zero
    ELSE RAdd(TrackSum(tracks, i - 1, d, pref),
              IF pref THEN tracks[i].Size.Pref[d] ELSE tracks[i].Size.Need[d])

TrackSums(gd, pref) ==
    NewVec2D(TrackSum(gd.Col, Len(gd.Col), X, pref), TrackSum(gd.Row, Len(gd.Row), Y, pref))

\* the container's sizes from the tracks' sums, the box spacing added
GridAggregate(style, ld, gd) ==
    [ld EXCEPT
        !.Size.Need = VecAddVal(VecMax(@, TrackSums(gd, FALSE)), RMul(Rat(2), style.BoxSpace)),
        !.Size.Pref = VecAddVal(VecMax(@, TrackSums(gd, TRUE)), RMul(Rat(2), style.BoxSpace))]

GridGathered(style, ld, gs, lp) ==
    [LayData  |-> IF lp.panic THEN ld ELSE UpdateSizes(GridAggregate(style, ld, lp.GridData)),
     Kids     |-> lp.Kids,
     GridSize |-> gs,
     GridData |-> lp.GridData,
     panic    |-> lp.panic]

GridGatherDims(style, ld, kids, gridData, gs) ==
    GridGathered(style, ld, gs,
        GridGatherLoop(kids, 1, 0, 0, gs[1], gs[2],
                       [Row |-> GridTracks(gridData.Row, gs[2]),
                        Col |-> GridTracks(gridData.Col, gs[1])]))

\* first pass: gather the size information from the children, grid version
GatherSizesGrid(style, ld, kids, gridSize, gridData) ==
    IF Len(kids) = 0
    THEN [LayData |-> ld, Kids |-> kids, GridSize |-> gridSize,
          GridData |-> gridData, panic |-> FALSE]
    ELSE GridGatherDims(style, ld, kids, gridData, GridDims(style.Columns, kids))

-----------------------------------------------------------------------------
(* Layout: the second pass, allocating along one dimension *)

\* the tolerance of "not fitting in pref": extra < -0.1
FitTol == Norm(-1, 10)

\* extra = math.Max(extra, 0.0), with e1 = avail - pref: if e1 < -0.1 the base
\* is need and extra is avail - need
FitExtraOf(e1, avail, need) ==
    IF RLt(e1, FitTol)
    THEN [usePref |-> FALSE, extra |-> RMax(RSub(avail, need), Zero)]
    ELSE [usePref |-> TRUE, extra |-> RMax(e1, Zero)]

\* a slip that never falls back to need
FitExtraPrefOnly(avail, need, pref) ==
    [usePref |-> TRUE, extra |-> RMax(RSub(avail, pref), Zero)]

\* targ := pref; extra := avail - targ; if extra < -0.1, go with need;
\* then extra = math.Max(extra, 0)
FitExtra(avail, need, pref) == FitExtraOf(RSub(avail, pref), avail, need)

\* a slip that leaves the justify case out
SinglePlaceFixed(base, extra, stretch, spc, al) ==
    IF stretch THEN [pos |-> spc, size |-> RAdd(base, extra)]
    ELSE IF IsAlignMiddle(al)
    THEN [pos |-> RAdd(spc, RMul(Norm(1, 2), extra)), size |-> base]
    ELSE IF IsAlignEnd(al) THEN [pos |-> RAdd(spc, extra), size |-> base]
    ELSE [pos |-> spc, size |-> base]

\* pos and size, given the base size, the extra and whether the item stretches
SinglePlace(base, extra, stretch, spc, al) ==
    IF stretch THEN [pos |-> spc, size |-> RAdd(base, extra)]
    ELSE IF IsAlignMiddle(al)
    THEN [pos |-> RAdd(spc, RMul(Norm(1, 2), extra)), size |-> base]
    ELSE IF IsAlignEnd(al) THEN [pos |-> RAdd(spc, extra), size |-> base]
    ELSE IF al = AlignJustify THEN [pos |-> spc, size |-> RAdd(base, extra)]
    ELSE [pos |-> spc, size |-> base]

\* stretchMax (pref fits, extra > 0, max < 0) or stretchNeed (need is the base,
\* extra > 0)
SingleFit(fe, need, pref, max, spc, al) ==
    SinglePlace(IF fe.usePref THEN pref ELSE need, fe.extra,
                RGt(fe.extra, Zero) /\ (fe.usePref => RLt(max, Zero)), spc, al)

\* calculations to layout a single-element dimension, returns pos and size
LayoutSingleImpl(avail, need, pref, max, spc, al) ==
    SingleFit(FitExtra(avail, need, pref), need, pref, max, spc, al)

\* gi.LayData.AllocSize.SetDim(dim, size); gi.LayData.AllocPosRel.SetDim(dim, pos)
SetAlloc(k, ps, dim) ==
    [k EXCEPT !.LD.AllocSize[dim] = ps.size, !.LD.AllocPosRel[dim] = ps.pos]

LayoutSingleKid(k, avail, spc, dim) ==
    SetAlloc(k, LayoutSingleImpl(avail, k.LD.Size.Need[dim], k.LD.Size.Pref[dim],
                                 k.LD.Size.Max[dim], spc, AlignDim(k.St, dim)), dim)

\* layout item in single-dimensional case -- e.g., orthogonal dimension from
\* LayoutRow / Col
LayoutSingle(style, ld, kids, dim) ==
    [i \in DOMAIN kids |->
        IF IsNode(kids[i])
        THEN LayoutSingleKid(kids[i],
                 RSub(ld.AllocSize[dim], RMul(Rat(2), style.BoxSpace)),
                 style.BoxSpace, dim)
        ELSE kids[i]]

\* is item sp a stretch candidate: with pref as the base only Max < 0 stretches,
\* with need as the base also Pref > Need
IsStretchCand(sp, dim, usePref) ==
    IF usePref THEN HasMaxStretch(sp, dim)
    ELSE HasMaxStretch(sp, dim) \/ CanStretchNeed(sp, dim)

\* the items (LayoutData) of seq that take part: part[i] tells which
RECURSIVE StretchTot(_, _, _, _, _)
StretchTot(lds, part, i, dim, usePref) ==
    IF i = 0 THEN Zero
    ELSE IF part[i] /\ IsStretchCand(lds[i].Size, dim, usePref)
    THEN RAdd(StretchTot(lds, part, i - 1, dim, usePref), lds[i].Size.Pref[dim])
    ELSE StretchTot(lds, part, i - 1, dim, usePref)

NStretch(lds, part, dim, usePref) ==
    Cardinality({i \in DOMAIN lds : part[i] /\ IsStretchCand(lds[i].Size, dim, usePref)})

\* the plan, given whether some item stretches
PlanRecord(al, spc, sz, avail, fe, stretch, strTot, addSp) ==
    [usePref |-> fe.usePref, extra |-> fe.extra, avail |-> avail,
     stretchTot |-> strTot,
     stretchMax |-> fe.usePref /\ stretch,
     stretchNeed |-> ~fe.usePref /\ stretch,
     addSpace |-> addSp,
     extraSpace |-> IF addSp THEN RDiv(fe.extra, Rat(sz - 1)) ELSE Zero,
     pos0 |-> IF IsAlignEnd(al) /\ ~stretch THEN RAdd(spc, fe.extra) ELSE spc]

\* a slip that spreads the extra as gaps under every alignment
PlanStretchGaps(al, spc, sz, avail, fe, stretch, strTot) ==
    PlanRecord(al, spc, sz, avail, fe, stretch, strTot,
               sz > 1 /\ RGt(fe.extra, Zero) /\ ~stretch)

\* addSpace: apply extra toward spacing -- for justify
PlanStretch(al, spc, sz, avail, fe, stretch, strTot) ==
    PlanRecord(al, spc, sz, avail, fe, stretch, strTot,
               sz > 1 /\ RGt(fe.extra, Zero) /\ al = AlignJustify /\ ~stretch)

PlanFit(al, spc, lds, part, dim, avail, fe) ==
    IF RGt(fe.extra, Zero)
    THEN PlanStretch(al, spc, Len(lds), avail, fe,
                     NStretch(lds, part, dim, fe.usePref) > 0,
                     StretchTot(lds, part, Len(lds), dim, fe.usePref))
    ELSE PlanStretch(al, spc, Len(lds), avail, fe, FALSE, Zero)

PlanAvail(al, spc, ld, lds, part, dim, spc2, avail) ==
    PlanFit(al, spc, lds, part, dim, avail,
            FitExtra(avail, RSub(ld.Size.Need[dim], spc2), RSub(ld.Size.Pref[dim], spc2)))

PlanSpace(al, spc, ld, lds, part, dim, spc2) ==
    PlanAvail(al, spc, ld, lds, part, dim, spc2, RSub(ld.AllocSize[dim], spc2))

\* what LayoutAll and LayoutGridDim work out before arranging the items
AllocPlan(al, spc, ld, lds, part, dim) ==
    PlanSpace(al, spc, ld, lds, part, dim, RMul(Rat(2), spc))

\* a slip that leaves the child's own pref out of its share of the extra
ItemSizeEqual(pl, sp, dim) ==
    LET base == IF pl.usePref THEN sp.Pref[dim] ELSE sp.Need[dim]
    IN  IF (pl.stretchMax \/ pl.stretchNeed) /\ IsStretchCand(sp, dim, pl.usePref)
        THEN RAdd(base, RMul(pl.extra, RDiv(Rat(1), pl.stretchTot)))
        ELSE base

\* the size one item gets
ItemSize(pl, sp, dim) ==
    LET base == IF pl.usePref THEN sp.Pref[dim] ELSE sp.Need[dim]
    IN  IF (pl.stretchMax \/ pl.stretchNeed) /\ IsStretchCand(sp, dim, pl.usePref)
        THEN RAdd(base, RMul(pl.extra, RDiv(sp.Pref[dim], pl.stretchTot)))
        ELSE base

\* the loop that arranges the items from item i on, the cursor at pos
RECURSIVE ArrangeFrom(_, _, _, _, _, _)
RECURSIVE ArrangeItem(_, _, _, _, _, _, _)
ArrangeItem(pl, lds, part, i, p1, size, dim) ==
    ArrangeFrom(pl, [lds EXCEPT ![i].AllocSize[dim] = size, ![i].AllocPosRel[dim] = p1],
                part, i + 1, RAdd(p1, size), dim)

ArrangeFrom(pl, lds, part, i, pos, dim) ==
    IF i > Len(lds) THEN lds
    ELSE IF ~part[i] THEN ArrangeFrom(pl, lds, part, i + 1, pos, dim)
    ELSE ArrangeItem(pl, lds, part, i,
                     IF pl.addSpace /\ i > 1 THEN RAdd(pos, pl.extraSpace) ELSE pos,
                     ItemSize(pl, lds[i].Size, dim), dim)

ArrangePlan(pl, lds, part, dim) == ArrangeFrom(pl, lds, part, 1, pl.pos0, dim)

SetLayDatas(kids, lds) == [i \in DOMAIN kids |-> [kids[i] EXCEPT !.LD = lds[i]]]

LayDatas(kids) == [i \in DOMAIN kids |-> kids[i].LD]

Parts(kids) == [i \in DOMAIN kids |-> IsNode(kids[i])]

\* layout all children along given dim -- only affects that dim
LayoutAll(style, ld, kids, dim) ==
    IF Len(kids) = 0 THEN kids
    ELSE SetLayDatas(kids,
             ArrangePlan(AllocPlan(AlignDim(style, dim), style.BoxSpace, ld,
                                   LayDatas(kids), Parts(kids), dim),
                         LayDatas(kids), Parts(kids), dim))

AllTracks(gd) == [i \in DOMAIN gd |-> TRUE]

\* layout grid data along each dimension (row, Y; col, X), same as LayoutAll
LayoutGridDim(style, ld, gd, dim) ==
    IF Len(gd) = 0 THEN gd
    ELSE ArrangePlan(AllocPlan(AlignDim(style, dim), style.BoxSpace, ld, gd,
                               AllTracks(gd), dim),
                     gd, AllTracks(gd), dim)

-----------------------------------------------------------------------------
(* Layout: the grid allocation *)

\* a child's position and size in its track along dim: LayoutSingleImpl within
\* the track's allocation, then offset by the track's position
GridPlaceSet(k, ps, tld, dim) ==
    [k EXCEPT !.LD.AllocSize[dim] = ps.size,
              !.LD.AllocPosRel[dim] = RAdd(ps.pos, tld.AllocPosRel[dim])]

GridPlaceDim(k, tld, dim) ==
    GridPlaceSet(k, LayoutSingleImpl(tld.AllocSize[dim], k.LD.Size.Need[dim],
                                     k.LD.Size.Pref[dim], k.LD.Size.Max[dim], Zero,
                                     AlignDim(k.St, dim)),
                 tld, dim)

\* the loop of LayoutGrid over the children, from child i with cursor (col, row);
\* an index outside a track sequence is a run-time panic, which ends the loop
RECURSIVE GridPlaceLoop(_, _, _, _, _, _, _)
RECURSIVE GridPlaceCell(_, _, _, _, _, _)
RECURSIVE GridPlaceNext(_, _, _, _, _, _)
GridPlaceNext(kids, i, nxt, cols, rows, gd) ==
    GridPlaceLoop(kids, i + 1, nxt[1], nxt[2], cols, rows, gd)

GridPlaceCell(kids, i, cell, cols, rows, gd) ==
    IF cell[1] >= Len(gd.Col) THEN [Kids |-> kids, panic |-> TRUE]
    ELSE IF cell[2] >= Len(gd.Row)
    THEN [Kids |-> [kids EXCEPT ![i] = GridPlaceDim(@, gd.Col[cell[1] + 1], X)],
          panic |-> TRUE]
    ELSE GridPlaceNext(
             [kids EXCEPT ![i] = GridPlaceDim(GridPlaceDim(@, gd.Col[cell[1] + 1], X),
                                              gd.Row[cell[2] + 1], Y)],
             i, GridAdvance(cell[1], cell[2], cols, rows), cols, rows, gd)

GridPlaceLoop(kids, i, col, row, cols, rows, gd) ==
    IF i > Len(kids) THEN [Kids |-> kids, panic |-> FALSE]
    ELSE IF ~IsNode(kids[i]) THEN GridPlaceLoop(kids, i + 1, col, row, cols, rows, gd)
    ELSE GridPlaceCell(kids, i, GridCell(kids[i].St, col, row), cols, rows, gd)

GridPlaced(lp, gd) == [Kids |-> lp.Kids, GridData |-> gd, panic |-> lp.panic]

GridPlace(kids, gridSize, gd) ==
    GridPlaced(GridPlaceLoop(kids, 1, 0, 0, gridSize[1], gridSize[2], gd), gd)

LayoutGridImpl(style, ld, kids, gridSize, gridData) ==
    IF Len(kids) = 0 THEN [Kids |-> kids, GridData |-> gridData, panic |-> FALSE]
    ELSE GridPlace(kids, gridSize,
                   [Row |-> LayoutGridDim(style, ld, gridData.Row, Y),
                    Col |-> LayoutGridDim(style, ld, gridData.Col, X)])

-----------------------------------------------------------------------------
(* Layout: finalizing, overflow and scrollbars *)

\* final pass through children to finalize the layout: ChildSize
FinalizeLayout(kids) ==
    LET ext == [i \in DOMAIN kids |-> VecAdd(kids[i].LD.AllocPosRel, kids[i].LD.AllocSize)]
    IN  VecMaxTo(ext, kids, Len(kids))

\* a nil *ScrollBar
NilScroll ==
    [exists |-> FALSE, Min |-> Zero, Max |-> Zero, Step |-> Zero, PageStep |-> Zero,
     ThumbVal |-> Zero, Value |-> Zero, AllocSize |-> Vec2DZero,
     AllocPosRel |-> Vec2DZero]

\* the scrollbar is made on first use; every use sets its range and steps
SetScroll(sc, style, ld, childSize, extraSize, d) ==
    LET s0 == IF sc.exists THEN sc ELSE [NilScroll EXCEPT !.exists = TRUE]
    IN  [s0 EXCEPT !.Min = Zero,
                   !.Max = RAdd(childSize[d], extraSize[d]),
                   !.Step = style.FontSize,
                   !.PageStep = RMul(Rat(10), style.FontSize),
                   !.ThumbVal = RSub(ld.AllocSize[d], style.BoxSpace)]

SetHScroll(sc, style, ld, childSize, extraSize) ==
    SetScroll(sc, style, ld, childSize, extraSize, X)

SetVScroll(sc, style, ld, childSize, extraSize) ==
    SetScroll(sc, style, ld, childSize, extraSize, Y)

DeactivateScroll(sc) == [sc EXCEPT !.AllocSize = Vec2DZero]

\* LayoutScrolls for the scrollbar of dimension d (X: HScroll, Y: VScroll)
LayoutScroll(sc, style, ld, has, hasOther, d) ==
    LET o   == OtherDim(d)
        sbw == style.ScrollBarWidth
        len == IF hasOther THEN RSub(ld.AllocSize[d], sbw) ELSE ld.AllocSize[d]
    IN  IF has
        THEN [sc EXCEPT
                 !.AllocPosRel = [@ EXCEPT
                     ![d] = ld.AllocPosRel[d],
                     ![o] = RSub(RSub(RAdd(ld.AllocPosRel[o], ld.AllocSize[o]), sbw), Rat(2))],
                 !.AllocSize = [@ EXCEPT ![d] = len, ![o] = sbw]]
        ELSE IF sc.exists THEN DeactivateScroll(sc) ELSE sc

\* the scrollbars of ManageOverflow, and their layout when overflow is not hidden
OverflowScrolls(style, ld, childSize, old, vis, hasH, hasV, ex) ==
    [ExtraSize  |-> ex,
     HasHScroll |-> hasH,
     HasVScroll |-> hasV,
     HScroll    |-> IF hasH
                    THEN LayoutScroll(SetHScroll(old.HScroll, style, ld, childSize, ex),
                                      style, ld, hasH, hasV, X)
                    ELSE IF vis THEN LayoutScroll(old.HScroll, style, ld, hasH, hasV, X)
                    ELSE old.HScroll,
     VScroll    |-> IF hasV
                    THEN LayoutScroll(SetVScroll(old.VScroll, style, ld, childSize, ex),
                                      style, ld, hasV, hasH, Y)
                    ELSE IF vis THEN LayoutScroll(old.VScroll, style, ld, hasV, hasH, Y)
                    ELSE old.VScroll]

\* a slip that reserves the strip on the scrolling axis itself
OverflowHasSameAxis(style, ld, childSize, old, vis, hasH, hasV) ==
    OverflowScrolls(style, ld, childSize, old, vis, hasH, hasV,
                    NewVec2D(IF hasH THEN style.ScrollBarWidth ELSE Zero,
                             IF hasV THEN style.ScrollBarWidth ELSE Zero))

OverflowHas(style, ld, childSize, old, vis, hasH, hasV) ==
    OverflowScrolls(style, ld, childSize, old, vis, hasH, hasV,
                    NewVec2D(IF hasV THEN style.ScrollBarWidth ELSE Zero,
                             IF hasH THEN style.ScrollBarWidth ELSE Zero))

OverflowAvail(style, ld, childSize, old, vis, avail) ==
    OverflowHas(style, ld, childSize, old, vis,
                vis /\ RGt(childSize.X, avail.X), vis /\ RGt(childSize.Y, avail.Y))

\* process any overflow according to overflow settings
ManageOverflow(style, ld, kids, childSize, old) ==
    IF Len(kids) = 0 THEN old
    ELSE OverflowAvail(style, ld, childSize, old, style.Overflow # OverflowHidden,
                       VecSubVal(ld.AllocSize, style.BoxSpace))

-----------------------------------------------------------------------------
(* Layout: positions, scrolling and the two passes as operations *)

\* a slip that adds the scroll offset instead of subtracting it
Move2DDeltaAdd(delta, hasH, hasV, hs, vs) ==
    NewVec2D(IF hasH THEN RAdd(delta.X, hs.Value) ELSE delta.X,
             IF hasV THEN RAdd(delta.Y, vs.Value) ELSE delta.Y)

\* we add our own offset here
Move2DDelta(delta, hasH, hasV, hs, vs) ==
    NewVec2D(IF hasH THEN RSub(delta.X, hs.Value) ELSE delta.X,
             IF hasV THEN RSub(delta.Y, vs.Value) ELSE delta.Y)

\* Node2DBase.Move2DBase: the absolute position is the original one plus delta
Move2DBase(ld, delta) == [ld EXCEPT !.AllocPos = VecAdd(ld.AllocPosOrig, delta)]

\* Move2DChildren: every child that takes part moves by delta
Move2DChildren(kids, delta) ==
    [i \in DOMAIN kids |->
        IF IsNode(kids[i]) THEN [kids[i] EXCEPT !.LD = Move2DBase(@, delta)]
        ELSE kids[i]]

\* Node2DBase.Layout2DBase: the absolute position from the parent's, kept as
\* the original position for later moves
Layout2DBase(ld, parPos) ==
    LET pos == VecAdd(parPos, ld.AllocPosRel)
    IN  [ld EXCEPT !.AllocPos = pos, !.AllocPosOrig = pos]

\* Layout2DChildren: the children's own Layout2D
Layout2DChildren(kids, parPos) ==
    [i \in DOMAIN kids |->
        IF IsNode(kids[i]) THEN [kids[i] EXCEPT !.LD = Layout2DBase(@, parPos)]
        ELSE kids[i]]

\* Node2DBase.InitLayout2D, then what the child's own Size2D finds as its size
KidSize2D(k) ==
    IF IsNode(k)
    THEN [k EXCEPT !.LD = [SetFromStyle(@, k.St) EXCEPT !.AllocSize = k.St.Content]]
    ELSE k

OkPc == {"Built", "Sized", "Laid"}

\* the record of the last operation: its name, its argument, whether it moved
\* the tree, the Splits before it, whether it returned an error (an operation
\* with no error result never does), and the same of the operation before it
Hist(op, arg, moved, pre) ==
    [op |-> op, arg |-> arg, moved |-> moved, pre |-> pre, err |-> FALSE,
     prev |-> [op |-> hist.op, arg |-> hist.arg, pre |-> hist.pre]]

NoPrev == [op |-> "None", arg |-> <<>>, pre |-> <<>>]

NoHist ==
    [op |-> "Init", arg |-> <<>>, moved |-> FALSE, pre |-> <<>>, err |-> FALSE,
     prev |-> NoPrev]

\* the record of an operation of the Layout, which has no part in the splits
LayHist(op, arg, moved) ==
    [op |-> op, arg |-> arg, moved |-> moved, pre |-> <<>>, err |-> FALSE,
     prev |-> NoPrev]

\* the gathering of a layout that is no grid leaves the grid data alone
GatherFlat(g, gridSize, gridData) ==
    [LayData |-> g.LayData, Kids |-> g.Kids, GridSize |-> gridSize,
     GridData |-> gridData, panic |-> FALSE]

\* the switch of Size2D on the kind of layout
GatherKind(lay, style, ld, ks, gridSize, gridData) ==
    IF lay = LayoutGrid THEN GatherSizesGrid(style, ld, ks, gridSize, gridData)
    ELSE GatherFlat(GatherSizes(lay, style, ld, ks), gridSize, gridData)

KidsSize2D(kids) == [i \in DOMAIN kids |-> KidSize2D(kids[i])]

\* Layout.Size2D, after the children's Size2D (depth first)
Size2D ==
    /\ pc \in OkPc
    /\ \E g \in {GatherKind(Lay, Style, SetFromStyle(LayData, Style), KidsSize2D(Kids),
                            GridSize, GridData)} :
          /\ LayData' = g.LayData
          /\ Kids' = g.Kids
          /\ GridSize' = g.GridSize
          /\ GridData' = g.GridData
          /\ pc' = IF g.panic THEN "panic" ELSE "Sized"
    /\ hist' = LayHist("Size2D", <<>>, FALSE)
    /\ UNCHANGED <<Lay, Style, ChildSize, ExtraSize, HasHScroll, HasVScroll, HScroll,
                   VScroll, StackTop, Updating, Splits, SavedSplits, nops>>

FlatKids(kids, gridData) == [Kids |-> kids, GridData |-> gridData, panic |-> FALSE]

\* the switch of Layout2D on the kind of layout
LayoutKids(lay, style, ld, kids, gridSize, gridData) ==
    CASE lay = LayoutRow ->
            FlatKids(LayoutSingle(style, ld, LayoutAll(style, ld, kids, X), Y), gridData)
      [] lay = LayoutCol ->
            FlatKids(LayoutSingle(style, ld, LayoutAll(style, ld, kids, Y), X), gridData)
      [] lay = LayoutGrid -> LayoutGridImpl(style, ld, kids, gridSize, gridData)
      [] lay = LayoutStacked ->
            FlatKids(LayoutSingle(style, ld, LayoutSingle(style, ld, kids, X), Y), gridData)
      [] OTHER -> FlatKids(kids, gridData)

\* the children after Layout2DChildren and the move by the layout's own offset
LaidKids(kids, pos, dl) ==
    IF VecIsZero(dl) THEN Layout2DChildren(kids, pos)
    ELSE Move2DChildren(Layout2DChildren(kids, pos), dl)

\* the scrollbars as ManageOverflow finds them
OldScrolls ==
    [ExtraSize |-> ExtraSize, HasHScroll |-> HasHScroll, HasVScroll |-> HasVScroll,
     HScroll |-> HScroll, VScroll |-> VScroll]

\* Layout.Layout2D, the parent having allocated par.Size at par.PosRel
Layout2D(par) ==
    /\ pc = "Sized"
    /\ \E ld1 \in {Layout2DBase([LayData EXCEPT !.AllocSize = par.Size,
                                               !.AllocPosRel = par.PosRel], Vec2DZero)} :
       \E lk \in {LayoutKids(Lay, Style, ld1, Kids, GridSize, GridData)} :
          /\ LayData' = ld1
          /\ GridData' = lk.GridData
          /\ IF lk.panic
             THEN /\ Kids' = lk.Kids
                  /\ pc' = "panic"
                  /\ UNCHANGED <<ChildSize, ExtraSize, HasHScroll, HasVScroll,
                                 HScroll, VScroll>>
             ELSE \E cs \in {FinalizeLayout(lk.Kids)} :
                  \E mo \in {ManageOverflow(Style, ld1, lk.Kids, cs, OldScrolls)} :
                     /\ Kids' = LaidKids(lk.Kids, ld1.AllocPos,
                                         Move2DDelta(Vec2DZero, mo.HasHScroll,
                                                     mo.HasVScroll, mo.HScroll, mo.VScroll))
                     /\ pc' = "Laid"
                     /\ ChildSize' = cs
                     /\ ExtraSize' = mo.ExtraSize
                     /\ HasHScroll' = mo.HasHScroll
                     /\ HasVScroll' = mo.HasVScroll
                     /\ HScroll' = mo.HScroll
                     /\ VScroll' = mo.VScroll
    /\ hist' = LayHist("Layout2D", par, TRUE)
    /\ UNCHANGED <<Lay, Style, GridSize, StackTop, Updating, Splits, SavedSplits, nops>>

\* Move2DDelta reads the Value of a scrollbar that is nil: a flag is set and
\* its scrollbar was deleted
NilScrollRead(hasH, hasV, hs, vs) == (hasH /\ ~hs.exists) \/ (hasV /\ ~vs.exists)

\* Layout.Move2D: an ancestor moves this node by delta; the read of a nil
\* scrollbar panics after Move2DBase and before the children move
Move2DImpl(ld, kids, delta, hasH, hasV, hs, vs) ==
    IF NilScrollRead(hasH, hasV, hs, vs)
    THEN [LayData |-> Move2DBase(ld, delta), Kids |-> kids, panic |-> TRUE]
    ELSE [LayData |-> Move2DBase(ld, delta),
          Kids |-> Move2DChildren(kids, Move2DDelta(delta, hasH, hasV, hs, vs)),
          panic |-> FALSE]

Move2D(delta) ==
    /\ pc = "Laid"
    /\ \E m \in {Move2DImpl(LayData, Kids, delta, HasHScroll, HasVScroll, HScroll, VScroll)} :
          /\ LayData' = m.LayData
          /\ Kids' = m.Kids
          /\ pc' = IF m.panic THEN "panic" ELSE pc
    /\ hist' = LayHist("Move2D", delta, TRUE)
    /\ UNCHANGED <<Lay, Style, ChildSize, ExtraSize, HasHScroll, HasVScroll, HScroll,
                   VScroll, GridSize, GridData, StackTop, Updating, Splits,
                   SavedSplits, nops>>

\* Node2DBase.Move2DTree: Move2D by the node's present displacement
Move2DTree(ld, kids, hasH, hasV, hs, vs) ==
    Move2DImpl(ld, kids, VecSub(ld.AllocPos, ld.AllocPosOrig), hasH, hasV, hs, vs)

SliderValueChanged == "SliderValueChanged"
SliderPressed == "SliderPressed"
SliderReleased == "SliderReleased"

\* does the handler of the horizontal scrollbar's SliderSig move the tree?
HScrollMoves(sig, updating) == sig = SliderValueChanged /\ updating = 0

\* does the handler of the vertical scrollbar's SliderSig move the tree?
VScrollMoves(sig, updating) == sig = SliderValueChanged

\* the tree after the handler: moved by Move2DTree or left alone
HandlerMove(mv, ld, kids, hasH, hasV, hs, vs) ==
    IF mv THEN Move2DTree(ld, kids, hasH, hasV, hs, vs)
    ELSE [LayData |-> ld, Kids |-> kids, panic |-> FALSE]

\* the scrollbar after emitting sig: a SliderValueChanged carries the new value v
SliderSet(sc, sig, v) == IF sig = SliderValueChanged THEN [sc EXCEPT !.Value = v] ELSE sc

\* the horizontal scrollbar emits sig, its value being v after a change
HScrollSig(sig, v) ==
    /\ pc = "Laid"
    /\ HasHScroll
    /\ HScroll.exists
    /\ \E hs \in {SliderSet(HScroll, sig, v)} :
       \E m \in {HandlerMove(HScrollMoves(sig, Updating), LayData, Kids, HasHScroll,
                             HasVScroll, hs, VScroll)} :
          /\ HScroll' = hs
          /\ LayData' = m.LayData
          /\ Kids' = m.Kids
          /\ pc' = IF m.panic THEN "panic" ELSE pc
    /\ hist' = LayHist("HScrollSig", sig, HScrollMoves(sig, Updating))
    /\ UNCHANGED <<Lay, Style, ChildSize, ExtraSize, HasHScroll, HasVScroll, VScroll,
                   GridSize, GridData, StackTop, Updating, Splits, SavedSplits, nops>>

\* the vertical scrollbar emits sig, its value being v after a change
VScrollSig(sig, v) ==
    /\ pc = "Laid"
    /\ HasVScroll
    /\ VScroll.exists
    /\ \E vs \in {SliderSet(VScroll, sig, v)} :
       \E m \in {HandlerMove(VScrollMoves(sig, Updating), LayData, Kids, HasHScroll,
                             HasVScroll, HScroll, vs)} :
          /\ VScroll' = vs
          /\ LayData' = m.LayData
          /\ Kids' = m.Kids
          /\ pc' = IF m.panic THEN "panic" ELSE pc
    /\ hist' = LayHist("VScrollSig", sig, VScrollMoves(sig, Updating))
    /\ UNCHANGED <<Lay, Style, ChildSize, ExtraSize, HasHScroll, HasVScroll, HScroll,
                   GridSize, GridData, StackTop, Updating, Splits, SavedSplits, nops>>

\* Layout.DeleteHScroll: the scrollbar is destroyed and ly.HScroll is nil;
\* HasHScroll is left as it is
DeleteHScroll ==
    /\ pc \in OkPc
    /\ HScroll' = NilScroll
    /\ hist' = LayHist("DeleteHScroll", <<>>, FALSE)
    /\ UNCHANGED <<Lay, Style, LayData, Kids, ChildSize, ExtraSize, HasHScroll,
                   HasVScroll, VScroll, GridSize, GridData, StackTop, Updating,
                   Splits, SavedSplits, pc, nops>>

\* Layout.DeleteVScroll: the same of the vertical scrollbar
DeleteVScroll ==
    /\ pc \in OkPc
    /\ VScroll' = NilScroll
    /\ hist' = LayHist("DeleteVScroll", <<>>, FALSE)
    /\ UNCHANGED <<Lay, Style, LayData, Kids, ChildSize, ExtraSize, HasHScroll,
                   HasVScroll, HScroll, GridSize, GridData, StackTop, Updating,
                   Splits, SavedSplits, pc, nops>>

\* UpdateStart / UpdateEnd of the node around a change made from outside
UpdateStart ==
    /\ pc \in OkPc
    /\ Updating < MaxUpdating
    /\ Updating' = Updating + 1
    /\ hist' = LayHist("UpdateStart", <<>>, FALSE)
    /\ UNCHANGED <<layoutVars, splitVars, pc, nops>>

UpdateEnd ==
    /\ pc \in OkPc
    /\ Updating > 0
    /\ Updating' = Updating - 1
    /\ hist' = LayHist("UpdateEnd", <<>>, FALSE)
    /\ UNCHANGED <<layoutVars, splitVars, pc, nops>>

-----------------------------------------------------------------------------
(* SplitView *)

\* sum := 0.0; for _, sp := range sq { sum += sp }
RECURSIVE SeqSum(_)
SeqSum(sq) ==
    IF Len(sq) = 0 THEN Zero
    ELSE RAdd(SeqSum(SubSeq(sq, 1, Len(sq) - 1)), sq[Len(sq)])

\* UpdateSplits updates the splits to be same length as number of children,
\* and normalized
UpdateSplits(splits, sz) ==
    IF sz = 0 THEN splits
    ELSE LET s1   == IF Len(splits) # sz THEN [i \in 1..sz |-> Zero] ELSE splits
             sum1 == SeqSum(s1)
             s2   == IF sum1 = Zero THEN [i \in 1..sz |-> RDiv(Rat(1), Rat(sz))] ELSE s1
             sum2 == IF sum1 = Zero THEN Rat(1) ELSE sum1
             norm == RDiv(Rat(1), sum2)
         IN  [i \in 1..sz |-> RMul(s2[i], norm)]

\* SetSplits sets the split proportions; writing past the end of Splits panics
SetSplitsImpl(splits, sz, args) ==
    LET mx == MinInt(sz, Len(args))
        wr == MinInt(mx, Len(splits))
        s1 == [i \in 1..Len(splits) |-> IF i <= wr THEN args[i] ELSE splits[i]]
    IN  IF mx > Len(splits)
        THEN [Splits |-> s1, panic |-> TRUE]
        ELSE [Splits |-> UpdateSplits(s1, sz), panic |-> FALSE]

\* SaveSplits saves the current set of splits in SavedSplits
SaveSplitsImpl(splits, saved) == IF Len(splits) = 0 THEN saved ELSE splits

\* the loop of CollapseChild over idxs, from the j-th index on
RECURSIVE CollapseLoop(_, _, _, _)
CollapseLoop(splits, sz, idxs, j) ==
    IF j > Len(idxs) THEN [Splits |-> splits, panic |-> FALSE]
    ELSE LET idx == idxs[j]
         IN  IF idx >= 0 /\ idx < sz
             THEN IF idx >= Len(splits)
                  THEN [Splits |-> splits, panic |-> TRUE]
                  ELSE CollapseLoop([splits EXCEPT ![idx + 1] = Zero], sz, idxs, j + 1)
             ELSE CollapseLoop(splits, sz, idxs, j + 1)

\* CollapseChild collapses given child(ren) (sets split proportion to 0),
\* optionally saving the prior splits
CollapseChildImpl(splits, saved, sz, save, idxs) ==
    LET sv == IF save THEN SaveSplitsImpl(splits, saved) ELSE saved
        lp == CollapseLoop(splits, sz, idxs, 1)
    IN  [Splits |-> IF lp.panic THEN lp.Splits ELSE UpdateSplits(lp.Splits, sz),
         SavedSplits |-> sv, panic |-> lp.panic]

SplitStep(op, arg) ==
    /\ pc \in OkPc
    /\ nops < MaxSplitOps
    /\ nops' = nops + 1
    /\ hist' = Hist(op, arg, FALSE, Splits)

\* a child is added to the SplitView
SvAddChild ==
    /\ SplitStep("AddChild", <<>>)
    /\ Len(Kids) < MaxSplitKids
    /\ Kids' = Append(Kids, SplitKid)
    /\ UNCHANGED <<Lay, Style, LayData, ChildSize, ExtraSize, HasHScroll, HasVScroll,
                   HScroll, VScroll, GridSize, GridData, StackTop, Updating,
                   Splits, SavedSplits, pc>>

\* SplitView.Init2D and SplitView.Style2D: UpdateSplits
SvInit2D ==
    /\ SplitStep("Init2D", <<>>)
    /\ Splits' = UpdateSplits(Splits, Len(Kids))
    /\ pc' = "Sized"
    /\ UNCHANGED <<layoutVars, SavedSplits, Updating>>

SvSetSplits(args) ==
    /\ SplitStep("SetSplits", args)
    /\ LET r == SetSplitsImpl(Splits, Len(Kids), args)
       IN  /\ Splits' = r.Splits
           /\ pc' = IF r.panic THEN "panic" ELSE pc
           /\ Updating' = IF r.panic THEN Updating + 1 ELSE Updating
    /\ UNCHANGED <<layoutVars, SavedSplits>>

SvSaveSplits ==
    /\ SplitStep("SaveSplits", <<>>)
    /\ SavedSplits' = SaveSplitsImpl(Splits, SavedSplits)
    /\ UNCHANGED <<layoutVars, Splits, Updating, pc>>

\* RestoreSplits restores a previously-saved set of splits (if it exists)
SvRestoreSplits ==
    /\ SplitStep("RestoreSplits", <<>>)
    /\ IF Len(SavedSplits) = 0
       THEN UNCHANGED <<Splits, pc, Updating>>
       ELSE LET r == SetSplitsImpl(Splits, Len(Kids), SavedSplits)
            IN  /\ Splits' = r.Splits
                /\ pc' = IF r.panic THEN "panic" ELSE pc
                /\ Updating' = IF r.panic THEN Updating + 1 ELSE Updating
    /\ UNCHANGED <<layoutVars, SavedSplits>>

SvCollapseChild(save, idxs) ==
    /\ SplitStep("CollapseChild", [save |-> save, idxs |-> idxs])
    /\ LET r == CollapseChildImpl(Splits, SavedSplits, Len(Kids), save, idxs)
       IN  /\ Splits' = r.Splits
           /\ SavedSplits' = r.SavedSplits
           /\ pc' = IF r.panic THEN "panic" ELSE pc
           /\ Updating' = IF r.panic THEN Updating + 1 ELSE Updating
    /\ UNCHANGED layoutVars

\* handsz := 10.0
HandleSize == Rat(10)

\* the child's allocation on the split dimension and on the other one
SplitAlloc(k, dim, size, osz, pos) ==
    [k EXCEPT !.LD.AllocSize = [@ EXCEPT ![dim] = size, ![OtherDim(dim)] = osz],
              !.LD.AllocPosRel = [@ EXCEPT ![dim] = pos, ![OtherDim(dim)] = Zero]]

\* a slip that leaves the handles out of the positions
RECURSIVE SplitPlaceNoHandle(_, _, _, _, _, _, _)
SplitPlaceNoHandle(kids, splits, i, pos, avail, osz, dim) ==
    IF i > Len(splits) THEN [Kids |-> kids, panic |-> FALSE]
    ELSE IF i > Len(kids) THEN [Kids |-> kids, panic |-> TRUE]
    ELSE IF ~IsNode(kids[i])
    THEN SplitPlaceNoHandle(kids, splits, i + 1, pos, avail, osz, dim)
    ELSE SplitPlaceNoHandle(
             [kids EXCEPT ![i] = SplitAlloc(@, dim, RMul(splits[i], avail), osz, pos)],
             splits, i + 1, RAdd(pos, RMul(splits[i], avail)), avail, osz, dim)

\* the loop of SplitView.Layout2D over Splits, from the i-th on; a split with
\* no child panics
RECURSIVE SplitPlace(_, _, _, _, _, _, _)
SplitPlace(kids, splits, i, pos, avail, osz, dim) ==
    IF i > Len(splits) THEN [Kids |-> kids, panic |-> FALSE]
    ELSE IF i > Len(kids) THEN [Kids |-> kids, panic |-> TRUE]
    ELSE IF ~IsNode(kids[i])
    THEN SplitPlace(kids, splits, i + 1, pos, avail, osz, dim)
    ELSE SplitPlace(
             [kids EXCEPT ![i] = SplitAlloc(@, dim, RMul(splits[i], avail), osz, pos)],
             splits, i + 1, RAdd(pos, RAdd(RMul(splits[i], avail), HandleSize)),
             avail, osz, dim)

\* SplitView.Layout2D after Layout2DBase and UpdateSplits
SplitLayout(kids, splits, ld, dim) ==
    SplitPlace(kids, splits, 1, Zero,
               RSub(ld.AllocSize[dim], RMul(HandleSize, Rat(Len(kids) - 1))),
               ld.AllocSize[OtherDim(dim)], dim)

\* the children's own Size2D
SvSize2D ==
    /\ pc \in OkPc
    /\ Kids # KidsSize2D(Kids)
    /\ Kids' = KidsSize2D(Kids)
    /\ hist' = LayHist("Size2D", <<>>, FALSE)
    /\ UNCHANGED <<Lay, Style, LayData, ChildSize, ExtraSize, HasHScroll, HasVScroll,
                   HScroll, VScroll, GridSize, GridData, StackTop, Updating,
                   Splits, SavedSplits, pc, nops>>

\* SplitView.Layout2D, the parent having allocated par.Size at par.PosRel
SvLayout2D(par) ==
    /\ pc \in OkPc
    /\ nops < MaxSplitOps
    /\ nops' = nops + 1
    /\ \E ld1 \in {Layout2DBase([LayData EXCEPT !.AllocSize = par.Size,
                                               !.AllocPosRel = par.PosRel], Vec2DZero)} :
       \E sp \in {UpdateSplits(Splits, Len(Kids))} :
       \E r \in {SplitLayout(Kids, sp, ld1, Style.Dim)} :
          /\ LayData' = ld1
          /\ Splits' = sp
          /\ Kids' = IF r.panic THEN r.Kids ELSE Layout2DChildren(r.Kids, ld1.AllocPos)
          /\ pc' = IF r.panic THEN "panic" ELSE "Laid"
    /\ hist' = [LayHist("Layout2D", par, TRUE) EXCEPT !.pre = Kids]
    /\ UNCHANGED <<Lay, Style, ChildSize, ExtraSize, HasHScroll, HasVScroll, HScroll,
                   VScroll, GridSize, GridData, StackTop, Updating, SavedSplits>>

\* ki.Slice.ValidIndex: is idx the index of one of n children
ValidIndex(idx, n) == idx >= 0 /\ idx < n

\* ShowChildAtIndex: the new StackTop and the error returned
ShowChildAtIndexImpl(stackTop, n, idx) ==
    IF ValidIndex(idx, n)
    THEN [StackTop |-> idx + 1, err |-> FALSE]
    ELSE [StackTop |-> stackTop, err |-> TRUE]

\* convenience for LayoutStacked to show child node at a given index
ShowChildAtIndex(idx) ==
    /\ pc \in OkPc
    /\ nops < MaxSplitOps
    /\ nops' = nops + 1
    /\ \E r \in {ShowChildAtIndexImpl(StackTop, Len(Kids), idx)} :
          /\ StackTop' = r.StackTop
          /\ hist' = [Hist("ShowChildAtIndex", idx, FALSE, StackTop) EXCEPT !.err = r.err]
    /\ UNCHANGED <<Lay, Style, LayData, Kids, ChildSize, ExtraSize, HasHScroll,
                   HasVScroll, HScroll, VScroll, GridSize, GridData, Updating,
                   Splits, SavedSplits, pc>>

-----------------------------------------------------------------------------
(* The specifications *)

\* the state of a Layout after construction, given its kind, style and children
InitLayout(lay, style, kids) ==
    /\ Lay = lay
    /\ Style = style
    /\ Kids = kids
    /\ LayData = ZeroLayData
    /\ ChildSize = Vec2DZero
    /\ ExtraSize = Vec2DZero
    /\ HasHScroll = FALSE
    /\ HasVScroll = FALSE
    /\ HScroll = NilScroll
    /\ VScroll = NilScroll
    /\ GridSize = <<0, 0>>
    /\ GridData = NoGrid
    /\ StackTop = 0
    /\ Updating = 0
    /\ Splits = <<>>
    /\ SavedSplits = <<>>
    /\ pc = "Built"
    /\ nops = 0
    /\ hist = NoHist

\* the maximum of a style that sets none: 0, as Defaults (src/layout.go:128-132)
\* leaves it, or one set so large that no size here comes near it
UnsetMaxes == {Rat(0), Rat(1000)}

\* the style st, its maximum on every axis where it has none set to m
MaxSet(st, m) ==
    [st EXCEPT !.Max = [d \in {X, Y} |-> IF st.Max[d] = Zero THEN m ELSE st.Max[d]]]

\* a Layout after construction with the maxima its styles leave unset drawn
\* from UnsetMaxes, the same for the container and for every child
InitStyled(lay, style, kids) ==
    \E m \in UnsetMaxes :
        InitLayout(lay, MaxSet(style, m), [i \in DOMAIN kids |-> [kids[i] EXCEPT !.St = MaxSet(@, m)]])

-----------------------------------------------------------------------------
(* Spec: a Layout of any kind with up to MaxKids children, sized and laid out *)

GenKids == {KFix10, KStr10, KStr0, KShrink, KMaxed, KBounded, KText, NilKid}

GenStyles ==
    {LayStyle(ss[1], al[1], al[2], ss[2], OverflowAuto, 0) :
        ss \in {<<0, 0>>, <<60, 2>>},
        al \in {<<AlignLeft, AlignTop>>, <<AlignJustify, AlignJustify>>}}

GenAllocs == {ParAlloc(12, 12, 0, 0), ParAlloc(30, 30, 0, 0), ParAlloc(80, 80, 0, 0)}

Init ==
    \E lay \in {LayoutRow, LayoutCol, LayoutGrid, LayoutStacked} :
    \E style \in GenStyles :
    \E kids \in SeqsUpTo(GenKids, MaxKids) :
        InitStyled(lay, style, kids)

Next ==
    \/ Size2D
    \/ \E par \in GenAllocs : Layout2D(par)

Spec == Init /\ [][Next]_vars

-----------------------------------------------------------------------------
(* SpecRow: a row of up to MaxRowKids children under every alignment *)

RowKids == {KFix10, KStr10, KStr30, KShrink, NilKid}

RowStyles ==
    {LayStyle(ss[1], al[1], al[2], ss[2], OverflowAuto, 0) :
        ss \in {<<0, 0>>, <<0, 2>>, <<60, 0>>}, al \in AlignPairs}

RowAllocs == {ParAlloc(12, 30, 0, 0), ParAlloc(50, 30, 0, 0), ParAlloc(80, 30, 0, 0)}

InitRow ==
    \E style \in RowStyles :
    \E kids \in SeqsUpTo(RowKids, MaxRowKids) :
        InitStyled(LayoutRow, style, kids)

NextRow ==
    \/ Size2D
    \/ \E par \in RowAllocs : Layout2D(par)

SpecRow == InitRow /\ [][NextRow]_vars

-----------------------------------------------------------------------------
(* SpecSingle: up to MaxSingleKids children, each with its own alignment, in a
   row, a stack or a grid *)

\* a child of need 5 and pref 15 that does not stretch, with its own alignment
KAligned(al) == Kid(KidStyle(5, 15, 0, al[1], al[2]))

SingleKids ==
    {KAligned(al) : al \in AlignPairs \cup {<<AlignLeft, AlignBaseline>>}} \cup
    {Kid(KidStyle(0, 10, -1, AlignCenter, AlignMiddle)), NilKid}

SingleStyles == {LayStyle(0, AlignLeft, AlignTop, spc, OverflowAuto, 0) : spc \in {0, 2}}

SingleAllocs == {ParAlloc(8, 8, 0, 0), ParAlloc(15, 15, 0, 0), ParAlloc(40, 40, 0, 0)}

InitSingle ==
    \E lay \in {LayoutRow, LayoutStacked, LayoutGrid} :
    \E style \in SingleStyles :
    \E kids \in SeqsUpTo(SingleKids, MaxSingleKids) :
        InitStyled(lay, style, kids)

NextSingle ==
    \/ Size2D
    \/ \E par \in SingleAllocs : Layout2D(par)

SpecSingle == InitSingle /\ [][NextSingle]_vars

-----------------------------------------------------------------------------
(* SpecGrid: a grid of up to MaxGridKids children *)

\* a child with an explicit grid position
KAt(col, row) == Kid([KidStyle(10, 10, 0, AlignLeft, AlignTop) EXCEPT !.Col = col, !.Row = row])

\* a child that stretches on X only
KStrX == Kid([KidStyle(10, 10, 0, AlignLeft, AlignTop) EXCEPT !.Max = Vec(-1, 0)])

\* a child with an explicit cell that spans one column and one row
KSpan(col, row) == [KAt(col, row) EXCEPT !.St.ColSpan = 1, !.St.RowSpan = 1]

\* n children, all KFix10 but for the first or the last, which is k
GridKidsOf(n, j, k) == [i \in 1..n |-> IF i = j THEN k ELSE KFix10]

GridKids ==
    {GridKidsOf(n, 0, KFix10) : n \in 0..MaxGridKids} \cup
    UNION {{GridKidsOf(n, j, k) : j \in {1, n},
                                   k \in {KStr10, KStrX, KFix20, NilKid, KAt(1, 1), KAt(0, 2), KSpan(1, 1)}} :
           n \in 1..MaxGridKids}

GridStyles ==
    {LayStyle(0, al[1], al[2], 0, OverflowAuto, cols) :
        cols \in 0..3, al \in AlignPairs \ {<<AlignJustify, AlignJustify>>}}

InitGrid ==
    \E style \in GridStyles :
    \E kids \in GridKids :
        InitStyled(LayoutGrid, style, kids)

NextGrid ==
    \/ Size2D
    \/ \E par \in GenAllocs : Layout2D(par)

SpecGrid == InitGrid /\ [][NextGrid]_vars

-----------------------------------------------------------------------------
(* SpecScroll: a row or column that overflows, moved and scrolled *)

ScrollKids == {<<KFix20>>, <<KFix20, KFix10>>, <<KFix10, NilKid, KFix20>>}

ScrollAllocs == {ParAlloc(12, 12, 0, 0), ParAlloc(12, 80, 3, 4), ParAlloc(80, 12, 0, 0)}

ScrollDeltas == {Vec(0, 0), Vec(0, 50), Vec(7, 0)}

ScrollValues == {Rat(0), Rat(5)}

SliderSigs == {SliderValueChanged, SliderPressed, SliderReleased}

ScrollStyles ==
    {LayStyle(0, AlignLeft, AlignTop, so[1], so[2], 0) :
        so \in {<<0, OverflowAuto>>, <<2, OverflowAuto>>, <<0, OverflowHidden>>}}

InitScroll ==
    \E lay \in {LayoutRow, LayoutCol} :
    \E style \in ScrollStyles :
    \E kids \in ScrollKids :
        InitStyled(lay, style, kids)

NextScroll ==
    \/ Size2D
    \/ \E par \in ScrollAllocs : Layout2D(par)
    \/ \E delta \in ScrollDeltas : Move2D(delta)
    \/ \E sig \in SliderSigs, v \in ScrollValues : HScrollSig(sig, v)
    \/ \E sig \in SliderSigs, v \in ScrollValues : VScrollSig(sig, v)
    \/ DeleteHScroll
    \/ DeleteVScroll
    \/ UpdateStart
    \/ UpdateEnd

SpecScroll == InitScroll /\ [][NextScroll]_vars

-----------------------------------------------------------------------------
(* SpecSplit: a SplitView of up to MaxSplitKids children, up to MaxSplitOps *)
(* operations on its splits                                                *)

SplitArgs ==
    {<<Rat(2), Rat(2), Rat(2)>>, <<Rat(2)>>, <<Rat(0), Rat(1), Rat(0)>>,
     <<Rat(1), Rat(3)>>, <<Rat(0), Rat(0), Rat(0)>>}

SplitIdxs == {<<0>>, <<1>>, <<0, 2>>, <<MaxSplitKids>>}

StackIdxs == {-1, 0, MaxSplitKids - 1, MaxSplitKids}

InitSplit ==
    \E n \in 0..MaxSplitKids :
        InitLayout(LayoutRow, LayStyle(0, AlignLeft, AlignTop, 0, OverflowAuto, 0),
                   [i \in 1..n |-> SplitKid])

NextSplit ==
    \/ SvAddChild
    \/ SvInit2D
    \/ \E args \in SplitArgs : SvSetSplits(args)
    \/ SvSaveSplits
    \/ SvRestoreSplits
    \/ \E save \in BOOLEAN, idxs \in SplitIdxs : SvCollapseChild(save, idxs)
    \/ \E idx \in StackIdxs : ShowChildAtIndex(idx)

SpecSplit == InitSplit /\ [][NextSplit]_vars

-----------------------------------------------------------------------------
(* SpecSplitLay: a SplitView of up to MaxSplitKids children along X or Y, its
   splits set and laid out *)

\* n children, all KFix10 but for the first or the last, which is k
SplitLayKids ==
    {[i \in 1..n |-> KFix10] : n \in 0..MaxSplitKids} \cup
    UNION {{[i \in 1..n |-> IF i = j THEN k ELSE KFix10] : j \in {1, n}, k \in {KStr30, NilKid}} :
           n \in 1..MaxSplitKids}

\* shares for SetSplits: plain ones, a negative one, and one that is +Inf
SplitLayArgs == {<<Rat(0), Rat(1), Rat(0)>>, <<Rat(3), Rat(-1)>>, <<Rat(1), PosInf>>}

SplitAllocs == {ParAlloc(5, 30, 0, 0), ParAlloc(60, 120, 4, 6)}

InitSplitLay ==
    \E dim \in {X, Y} :
    \E kids \in SplitLayKids :
        InitLayout(LayoutRow,
                   [LayStyle(0, AlignLeft, AlignTop, 0, OverflowAuto, 0) EXCEPT !.Dim = dim],
                   kids)

NextSplitLay ==
    \/ SvSize2D
    \/ \E args \in SplitLayArgs : SvSetSplits(args)
    \/ \E par \in SplitAllocs : SvLayout2D(par)

SpecSplitLay == InitSplitLay /\ [][NextSplitLay]_vars

-----------------------------------------------------------------------------
(* SpecSizes: a Layout of any kind whose own maximum and whose children's
   maxima are negative, 0 and positive, sized and laid out *)

\* a child with nothing asked of it but a maximum
KZeroMax == Kid(KidStyle(0, 0, 20, AlignLeft, AlignTop))

SizesKids == {KFix10, KStr10, KMaxed, KBounded, KZeroMax, NilKid}

SizesStyles ==
    {[LayStyle(ss[1], AlignLeft, AlignTop, ss[2], OverflowAuto, 0) EXCEPT !.Max = Vec(m, m)] :
        ss \in {<<0, 0>>, <<60, 2>>}, m \in {-1, 0, 25}}

InitSizes ==
    \E lay \in {LayoutRow, LayoutCol, LayoutGrid, LayoutStacked} :
    \E style \in SizesStyles :
    \E kids \in SeqsUpTo(SizesKids, MaxKids) :
        InitLayout(lay, style, kids)

NextSizes ==
    \/ Size2D
    \/ \E par \in GenAllocs : Layout2D(par)

SpecSizes == InitSizes /\ [][NextSizes]_vars

-----------------------------------------------------------------------------
(* The size invariant of the gather pass *)

\* the sizes sp are ordered on axis d, and within Max unless Max is negative
SizesOrdered(sp, d) ==
    /\ RLe(sp.Need[d], sp.Pref[d])
    /\ RGe(sp.Max[d], Zero) => RLe(sp.Need[d], sp.Max[d]) /\ RLe(sp.Pref[d], sp.Max[d])

Gathered2D == pc \in {"Sized", "Laid"}

\* C1: after any gather pass (GatherSizes or GatherSizesGrid, each ending in
\* UpdateSizes), the container and every child that took part have, on each
\* axis, Need <= Pref, and Need <= Max and Pref <= Max whenever Max >= 0 on
\* that axis, Max = 0 included; an axis with Max < 0 is exempt from the clamp.
C1_SizesOrdered ==
    Gathered2D /\ Len(Kids) > 0 =>
        \A d \in {X, Y} :
            /\ SizesOrdered(LayData.Size, d)
            /\ \A i \in NodeIdx(Kids) : SizesOrdered(Kids[i].LD.Size, d)

\* C1, a case: a gathered container with a maximum of 25 that its children
\* exceed, a child whose style asks a minimum of 10 under a maximum of 0, and
\* a child whose style asks a minimum above its positive maximum, each clamped
\* to its maximum
C1_Clamped ==
    /\ Gathered2D
    /\ LayData.Size.Max.X = Rat(25)
    /\ Style.Size.X = Rat(60)
    /\ LayData.Size.Pref.X = Rat(25)
    /\ \E i \in NodeIdx(Kids) :
          /\ Kids[i].St.Max.X = Zero
          /\ Kids[i].St.Min.X = Rat(10)
          /\ Kids[i].LD.Size.Need.X = Zero
          /\ Kids[i].LD.Size.Pref.X = Zero
    /\ \E i \in NodeIdx(Kids) :
          /\ RGt(Kids[i].St.Max.X, Zero)
          /\ RGt(Kids[i].St.Min.X, Kids[i].St.Max.X)
          /\ Kids[i].LD.Size.Need.X = Kids[i].St.Max.X
          /\ Kids[i].LD.Size.Pref.X = Kids[i].St.Max.X

\* a gathered child whose style asks nothing but a maximum keeps a Need and a
\* Pref of 0 under it
C1_ZeroUnderMax ==
    /\ Gathered2D
    /\ \E i \in NodeIdx(Kids) :
          /\ RGt(Kids[i].LD.Size.Max.X, Zero)
          /\ Kids[i].LD.Size.Need.X = Zero
          /\ Kids[i].LD.Size.Pref.X = Zero

-----------------------------------------------------------------------------
(* The fallback to Need of the allocators *)

Laid2D == pc = "Laid"

\* the container's available, preferred and needed extent along d, less the
\* box spacing on both sides
InnerAvail(d) == RSub(LayData.AllocSize[d], RMul(Rat(2), Style.BoxSpace))

InnerPref(d) == RSub(LayData.Size.Pref[d], RMul(Rat(2), Style.BoxSpace))

InnerNeed(d) == RSub(LayData.Size.Need[d], RMul(Rat(2), Style.BoxSpace))

\* pref exceeds avail by more than 0.1
Exceeds(avail, pref) == RLt(RSub(avail, pref), Norm(-1, 10))

\* the items of lds that may grow from Need: Max < 0 or Pref > Need
NeedCands(lds, part, d) ==
    {i \in DOMAIN lds : part[i] /\ (RLt(lds[i].Size.Max[d], Zero)
                                   \/ RGt(lds[i].Size.Pref[d], lds[i].Size.Need[d]))}

\* the last index of a non-empty set of indexes
LastOf(S) == CHOOSE i \in S : \A j \in S : j <= i

\* the sum of the prefs of the items in S, added up in the order of the items
RECURSIVE PrefSum(_, _, _)
PrefSum(lds, S, d) ==
    IF S = {} THEN Zero
    ELSE RAdd(PrefSum(lds, S \ {LastOf(S)}, d), lds[LastOf(S)].Size.Pref[d])

\* every item of lds that takes part starts from its Need along d: it gets its
\* Need, the candidates also their share of extra in proportion to their Pref,
\* and nobody gets less than its Need
FromNeed(lds, part, d, extra) ==
    \A i \in DOMAIN lds : part[i] =>
        /\ ~RLt(lds[i].AllocSize[d], lds[i].Size.Need[d])
        /\ lds[i].AllocSize[d] =
              IF RGt(extra, Zero) /\ i \in NeedCands(lds, part, d)
              THEN RAdd(lds[i].Size.Need[d],
                        RMul(extra, RDiv(lds[i].Size.Pref[d],
                                         PrefSum(lds, NeedCands(lds, part, d), d))))
              ELSE lds[i].Size.Need[d]

\* C4: when the preferred size exceeds the available extent by more than 0.1,
\* LayoutAll (the children of a row or column along its axis), LayoutGridDim
\* (the tracks of a grid) and LayoutSingleImpl (each child across the axis, and
\* in a stacked layout) start every item from its Need instead of its Pref;
\* and no child is ever allocated less than its Need on either axis.
C4_ShrinkToNeed ==
    Laid2D =>
        \A d \in {X, Y} :
            /\ \A i \in NodeIdx(Kids) :
                  ~RLt(Kids[i].LD.AllocSize[d], Kids[i].LD.Size.Need[d])
            /\ SumDim(Lay, d) /\ Exceeds(InnerAvail(d), InnerPref(d)) =>
                  FromNeed(LayDatas(Kids), Parts(Kids), d,
                           RMax(RSub(InnerAvail(d), InnerNeed(d)), Zero))
            /\ Lay = LayoutGrid /\ Len(Kids) > 0
                  /\ Exceeds(InnerAvail(d), InnerPref(d)) =>
                  FromNeed(IF d = X THEN GridData.Col ELSE GridData.Row,
                           AllTracks(IF d = X THEN GridData.Col ELSE GridData.Row), d,
                           RMax(RSub(InnerAvail(d), InnerNeed(d)), Zero))
            /\ Lay # LayoutGrid /\ ~SumDim(Lay, d) =>
                  \A i \in NodeIdx(Kids) :
                      Exceeds(InnerAvail(d), Kids[i].LD.Size.Pref[d]) =>
                          Kids[i].LD.AllocSize[d] =
                              RAdd(Kids[i].LD.Size.Need[d],
                                   RMax(RSub(InnerAvail(d), Kids[i].LD.Size.Need[d]), Zero))

\* C4, a case: a row too narrow for the preferred widths, where a child is
\* given more than its Need and less than its Pref
C4_Shrunk ==
    /\ Laid2D
    /\ Lay = LayoutRow
    /\ Exceeds(InnerAvail(X), InnerPref(X))
    /\ \E i \in NodeIdx(Kids) :
          /\ RGt(Kids[i].LD.AllocSize.X, Kids[i].LD.Size.Need.X)
          /\ RLt(Kids[i].LD.AllocSize.X, Kids[i].LD.Size.Pref.X)

-----------------------------------------------------------------------------
(* The allocation along a row *)

LaidRow == pc = "Laid" /\ Lay = LayoutRow

\* the extra of the row along X when the preferred widths are the base
PrefExtra == RMax(RSub(InnerAvail(X), InnerPref(X)), Zero)

\* the child that takes part before child i, or 0 if i is the first
PrevNode(i) ==
    IF \E j \in NodeIdx(Kids) : j < i
    THEN CHOOSE j \in NodeIdx(Kids) : j < i /\ \A k \in NodeIdx(Kids) : k < i => k <= j
    ELSE 0

\* child i starts exactly where the child before it ends, to the right of it
Follows(i) ==
    PrevNode(i) > 0 =>
        /\ Kids[i].LD.AllocPosRel.X =
              RAdd(Kids[PrevNode(i)].LD.AllocPosRel.X, Kids[PrevNode(i)].LD.AllocSize.X)
        /\ RGt(Kids[i].LD.AllocPosRel.X, Kids[PrevNode(i)].LD.AllocPosRel.X)

\* every child that takes part has a fixed width: Max >= 0 on X
AllFixed == \A i \in NodeIdx(Kids) : RGe(Kids[i].LD.Size.Max.X, Zero)

\* every child that takes part has a preferred width above 0
AllWide == \A i \in NodeIdx(Kids) : RGt(Kids[i].LD.Size.Pref.X, Zero)

\* the available width is at least the sum of the children's preferred widths
\* and twice the spacing
FitsPrefs == RGe(InnerAvail(X), PrefSum(LayDatas(Kids), NodeIdx(Kids), X))

\* every child has its preferred width and follows the child before it
Conserved ==
    \A i \in NodeIdx(Kids) :
        /\ Kids[i].LD.AllocSize.X = Kids[i].LD.Size.Pref.X
        /\ Follows(i)

\* C2, as amended: in a row whose children all have a fixed preferred width
\* w_i > 0 (Max >= 0), whose available width is at least sum(w_i) + 2*spacing
\* and whose own preferred width fits too (avail - pref >= -0.1), LayoutAll(X)
\* gives every child the width w_i, and every child starts exactly where the
\* child before it ends, for every alignment of the container but justify;
\* under justify with more than one child and extra > 0 the children are
\* separated by gaps.
C2_Conservation ==
    LaidRow /\ AllFixed /\ AllWide /\ FitsPrefs /\ ~Exceeds(InnerAvail(X), InnerPref(X))
            /\ ~(Style.AlignH = AlignJustify /\ Len(Kids) > 1 /\ RGt(PrefExtra, Zero))
        => Conserved

\* C2, a case: a right-aligned row with extra width and two children of
\* different fixed widths, each with its preferred width, the second
\* starting where the first ends
C2_RightAligned ==
    /\ LaidRow
    /\ AllFixed
    /\ Style.AlignH = AlignRight
    /\ RGt(PrefExtra, Zero)
    /\ ~Exceeds(InnerAvail(X), InnerPref(X))
    /\ \E i, j \in NodeIdx(Kids) :
          /\ PrevNode(j) = i
          /\ Kids[i].LD.Size.Pref.X # Kids[j].LD.Size.Pref.X
          /\ Kids[j].LD.AllocPosRel.X = RAdd(Kids[i].LD.AllocPosRel.X, Kids[i].LD.Size.Pref.X)

\* C2, as stated: the same for every alignment of the container, whenever the
\* available width is at least sum(w_i) + 2*spacing
C2_AsStated == LaidRow /\ AllFixed /\ FitsPrefs => Conserved

\* the children that stretch when the preferred widths fit: Max < 0 on X
MaxCands == {i \in NodeIdx(Kids) : RLt(Kids[i].LD.Size.Max.X, Zero)}

\* C3: when the preferred widths fit and extra > 0, LayoutAll grows exactly the
\* children with Max < 0 on X, each by extra * (own pref / sum of the
\* candidates' pref), and leaves every other child at its pref.
C3_Proportional ==
    LaidRow /\ ~Exceeds(InnerAvail(X), InnerPref(X)) /\ RGt(PrefExtra, Zero) =>
        \A i \in NodeIdx(Kids) :
            Kids[i].LD.AllocSize.X =
                IF i \in MaxCands
                THEN RAdd(Kids[i].LD.Size.Pref.X,
                          RMul(PrefExtra,
                               RDiv(Kids[i].LD.Size.Pref.X,
                                    PrefSum(LayDatas(Kids), MaxCands, X))))
                ELSE Kids[i].LD.Size.Pref.X

\* C3, a case: two children with Max.X = -1 and preferred widths 10 and 30,
\* extra = 40: they are given 10 + 10 and 30 + 30
C3_TenThirty ==
    /\ LaidRow
    /\ Len(Kids) = 2
    /\ MaxCands = {1, 2}
    /\ Kids[1].LD.Size.Pref.X = Rat(10)
    /\ Kids[2].LD.Size.Pref.X = Rat(30)
    /\ PrefExtra = Rat(40)
    /\ Kids[1].LD.AllocSize.X = Rat(20)
    /\ Kids[2].LD.AllocSize.X = Rat(60)

\* is the base of the row's allocation the preferred widths (else the needed)
RowUsesPref == ~Exceeds(InnerAvail(X), InnerPref(X))

RowExtra ==
    IF RowUsesPref THEN PrefExtra ELSE RMax(RSub(InnerAvail(X), InnerNeed(X)), Zero)

RowCands ==
    IF RowUsesPref THEN MaxCands ELSE NeedCands(LayDatas(Kids), Parts(Kids), X)

RowBase(i) == IF RowUsesPref THEN Kids[i].LD.Size.Pref.X ELSE Kids[i].LD.Size.Need.X

\* C5, as stated: in LayoutAll under justify, with no stretch candidate, N > 1
\* items and extra > 0, the extra is inserted as N-1 equal gaps of extra/(N-1)
\* between consecutive items, the first item keeps the leading position and
\* every item's size stays at its base size.
C5_AsStated ==
    LaidRow /\ Style.AlignH = AlignJustify /\ RowCands = {}
            /\ Cardinality(NodeIdx(Kids)) > 1 /\ RGt(RowExtra, Zero) =>
        \A i \in NodeIdx(Kids) :
            /\ Kids[i].LD.AllocSize.X = RowBase(i)
            /\ Kids[i].LD.AllocPosRel.X =
                  IF PrevNode(i) = 0 THEN Style.BoxSpace
                  ELSE RAdd(RAdd(Kids[PrevNode(i)].LD.AllocPosRel.X,
                                 Kids[PrevNode(i)].LD.AllocSize.X),
                            RDiv(RowExtra, Rat(Cardinality(NodeIdx(Kids)) - 1)))

-----------------------------------------------------------------------------
(* The dimensions of the grid *)

GatheredGrid == Gathered2D /\ Lay = LayoutGrid /\ Len(Kids) >= 1

\* no child sets its own column or row
NoExplicitCells == \A i \in NodeIdx(Kids) : Kids[i].St.Col = 0 /\ Kids[i].St.Row = 0

\* C6: after GatherSizesGrid on a container with at least one child,
\* GridSize = <<cols, rows>> has rows*cols >= the number of children, and rows
\* is either the number it started from (the explicit one, else
\* childCount / cols) or the least that reaches the bound; with no explicit
\* setting at all cols is the integer square root of the number of children.
C6_GridSize ==
    GatheredGrid =>
        /\ GridSize[2] * GridSize[1] >= Len(Kids)
        /\ \/ GridSize[2] = GridRows0(GridExplicit(Kids, 1, Style.Columns, 0),
                                      Len(Kids), GridSize[1])
           \/ (GridSize[2] - 1) * GridSize[1] < Len(Kids)
        /\ NoExplicitCells =>
              GridSize[1] = IF Style.Columns = 0 THEN ISqrt(Len(Kids)) ELSE Style.Columns

\* C6, a case: Columns = 3 and 7 children with no explicit positions give
\* GridSize = (3, 3)
C6_ThreeBySeven ==
    /\ GatheredGrid
    /\ Style.Columns = 3
    /\ Len(Kids) = 7
    /\ NoExplicitCells
    /\ GridSize = <<3, 3>>

-----------------------------------------------------------------------------
(* The splits of a SplitView *)

One == Rat(1)

EvenSplits(n) == [i \in 1..n |-> RDiv(One, Rat(n))]

\* the last operation returned, it did not panic
Returned == pc # "panic"

\* the shares as the last operation left them before normalization: the
\* Splits of before, with the arguments of a SetSplits written over them
RawSplits ==
    IF hist.op = "SetSplits"
    THEN [i \in 1..Len(hist.pre) |->
             IF i <= Len(hist.arg) /\ i <= Len(Kids) THEN hist.arg[i] ELSE hist.pre[i]]
    ELSE hist.pre

\* the raw shares coerced to length n: new entries are 0
Coerced(raw, n) == IF Len(raw) # n THEN [i \in 1..n |-> Zero] ELSE raw

\* C7, as stated: after UpdateSplits or SetSplits on a SplitView with N >= 1
\* children, Splits has length N and sums to 1, with equal shares 1/N when the
\* sum before normalization is 0; and SetSplits called twice in a row with the
\* same arguments yields the same Splits both times.
C7_AsStated ==
    hist.op \in {"Init2D", "SetSplits"} /\ Len(Kids) >= 1 =>
        /\ Returned
        /\ Len(Splits) = Len(Kids)
        /\ SeqSum(Splits) = One
        /\ SeqSum(Coerced(RawSplits, Len(Kids))) = Zero => Splits = EvenSplits(Len(Kids))
        /\ hist.op = "SetSplits" /\ hist.prev.op = "SetSplits" /\ hist.prev.arg = hist.arg
              => Splits = hist.pre

\* are the splits normalized for n children
Normalized(splits, n) == Len(splits) = n /\ SeqSum(splits) = One

\* the indexes are all valid for n children
ValidIdxs(idxs, n) == \A j \in 1..Len(idxs) : idxs[j] >= 0 /\ idxs[j] < n

\* C8, as stated: for a SplitView whose Splits are normalized,
\* CollapseChild(save = true, idx) followed by RestoreSplits() reproduces the
\* Splits of before the collapse, for every valid idx; after the collapse
\* alone the listed children's shares are 0 and the Splits sum to 1.
C8_AsStated ==
    /\ hist.op = "CollapseChild" /\ Normalized(hist.pre, Len(Kids))
            /\ ValidIdxs(hist.arg.idxs, Len(Kids)) =>
          /\ Returned
          /\ \A j \in 1..Len(hist.arg.idxs) : Splits[hist.arg.idxs[j] + 1] = Zero
          /\ SeqSum(Splits) = One
    /\ hist.op = "RestoreSplits" /\ hist.prev.op = "CollapseChild"
            /\ hist.prev.arg.save /\ Normalized(hist.prev.pre, Len(Kids))
            /\ ValidIdxs(hist.prev.arg.idxs, Len(Kids)) =>
          Splits = hist.prev.pre

-----------------------------------------------------------------------------
(* Scrolling *)

MoveOps == {"Move2D", "HScrollSig", "VScrollSig"}

\* the delta that came in to the container: its own displacement
IncomingDelta == VecSub(LayData.AllocPos, LayData.AllocPosOrig)

\* the accumulated delta: the incoming one minus the scrollbars' values
AccumDelta ==
    NewVec2D(IF HasHScroll THEN RSub(IncomingDelta.X, HScroll.Value) ELSE IncomingDelta.X,
             IF HasVScroll THEN RSub(IncomingDelta.Y, VScroll.Value) ELSE IncomingDelta.Y)

\* after a move every child is displaced from its laid out position by
\* the accumulated delta
Displaced ==
    \A i \in NodeIdx(Kids) :
        /\ Kids[i].LD.AllocPosOrig = VecAdd(LayData.AllocPosOrig, Kids[i].LD.AllocPosRel)
        /\ Kids[i].LD.AllocPos = VecAdd(Kids[i].LD.AllocPosOrig, AccumDelta)

\* the step changes of the children nothing but AllocPos
OnlyAllocPos ==
    /\ Len(Kids') = Len(Kids)
    /\ \A i \in 1..Len(Kids) : [Kids'[i] EXCEPT !.LD.AllocPos = Kids[i].LD.AllocPos] = Kids[i]

\* after an operation that moved the children they are displaced
MovedDisplaced == (pc = "Laid" /\ hist.moved) => Displaced

ScrollStep ==
    /\ (hist'.op \in MoveOps) => OnlyAllocPos
    /\ (hist'.op = "Move2D" /\ hist.op = "Move2D" /\ hist'.arg = hist.arg)
          => Kids' = Kids /\ LayData' = LayData

\* C9: a move (Move2D, the move of a scrollbar's handler, the move step at the
\* end of Layout2D) leaves every child at its laid out position plus the
\* accumulated delta (the incoming delta, minus the HScroll value on X if
\* HasHScroll, minus the VScroll value on Y if HasVScroll), changes no child's
\* AllocPosRel or AllocSize, and repeated with the same delta and the same
\* scrollbar values changes nothing.
C9_NonDestructive == []MovedDisplaced /\ [][ScrollStep]_vars

\* C9, as stated: an operation that applies a scroll offset ends with every
\* child at its laid out position plus the accumulated delta.
C9_AsStated == hist.moved => pc = "Laid" /\ Displaced

\* C9, a case: a delta of (0, 50) came in to a container scrolled down by 5,
\* and a child is 45 below its laid out position
C9_Scrolled ==
    /\ pc = "Laid"
    /\ hist.op = "Move2D"
    /\ hist.arg = Vec(0, 50)
    /\ HasVScroll
    /\ VScroll.Value = Rat(5)
    /\ \E i \in NodeIdx(Kids) :
          Kids[i].LD.AllocPos = VecAdd(Kids[i].LD.AllocPosOrig, Vec(0, 45))

\* a signal of a scrollbar that must not move the tree now
Deferred ==
    /\ hist'.op \in {"HScrollSig", "VScrollSig"}
    /\ Updating > 0 \/ hist'.arg # SliderValueChanged

\* C10, as stated: for both scrollbars, a value-changed signal that arrives
\* while the container's update counter is greater than zero moves no
\* descendant, and a signal other than value-changed never moves any.
C10_AsStated ==
    [][Deferred => ~hist'.moved /\ Kids' = Kids /\ LayData' = LayData]_vars

-----------------------------------------------------------------------------
(* Overflow *)

\* the overflow policy lets the container scroll
Scrollable == Style.Overflow # OverflowHidden

\* the children overflow what is available on dimension d
Overflows(d) == RGt(ChildSize[d], RSub(LayData.AllocSize[d], Style.BoxSpace))

StripIf(has) == IF has THEN Rat(ScrollBarWidthDots) ELSE Zero

\* C11: after ManageOverflow on a container with children, HasHScroll holds
\* exactly when the policy is not hidden and ChildSize.X > AllocSize.X - spacing,
\* HasVScroll exactly when it is not hidden and ChildSize.Y > AllocSize.Y -
\* spacing, both from the same ChildSize; ExtraSize.Y is the scrollbar width
\* iff HasHScroll (else 0) and ExtraSize.X the scrollbar width iff HasVScroll
\* (else 0); and when ManageOverflow returns, a flag that is set has its
\* scrollbar.
C11_Overflow ==
    pc = "Laid" /\ Len(Kids) > 0 =>
        /\ ChildSize = FinalizeLayout(Kids)
        /\ HasHScroll <=> (Scrollable /\ Overflows(X))
        /\ HasVScroll <=> (Scrollable /\ Overflows(Y))
        /\ ExtraSize = NewVec2D(StripIf(HasVScroll), StripIf(HasHScroll))
        /\ hist.op = "Layout2D" =>
              /\ HasHScroll => HScroll.exists
              /\ HasVScroll => VScroll.exists

\* C11, a case: the children overflow on X only
C11_OnlyH ==
    /\ pc = "Laid"
    /\ hist.op = "Layout2D"
    /\ Len(Kids) > 0
    /\ Overflows(X)
    /\ ~Overflows(Y)
    /\ HasHScroll
    /\ ~HasVScroll
    /\ HScroll.exists
    /\ ExtraSize = Vec(0, ScrollBarWidthDots)

-----------------------------------------------------------------------------
(* Requests by index *)

\* some index of idxs is outside the n children
SomeOutside(idxs, n) == \E j \in 1..Len(idxs) : ~ValidIndex(idxs[j], n)

\* C12, as stated: ShowChildAtIndex with an index outside the children returns
\* an error and leaves StackTop unchanged, with a valid index it sets StackTop
\* to that child and returns no error; and CollapseChild with an index outside
\* the children reports an error too.
C12_AsStated ==
    /\ hist.op = "ShowChildAtIndex" =>
          IF ValidIndex(hist.arg, Len(Kids))
          THEN ~hist.err /\ StackTop = hist.arg + 1
          ELSE hist.err /\ StackTop = hist.pre
    /\ hist.op = "CollapseChild" /\ SomeOutside(hist.arg.idxs, Len(Kids)) => hist.err

-----------------------------------------------------------------------------
(* The cells of the grid *)

\* is the cell inside a grid of cols columns and rows rows
CellInside(cell, cols, rows) ==
    cell[1] >= 0 /\ cell[1] < cols /\ cell[2] >= 0 /\ cell[2] < rows

\* are the cells of the children from child i on, the cursor at (col, row),
\* all inside the grid
RECURSIVE CellsInside(_, _, _, _, _, _)
CellsInside(kids, i, col, row, cols, rows) ==
    IF i > Len(kids) THEN TRUE
    ELSE IF ~IsNode(kids[i]) THEN CellsInside(kids, i + 1, col, row, cols, rows)
    ELSE /\ CellInside(GridCell(kids[i].St, col, row), cols, rows)
         /\ CellsInside(kids, i + 1,
                        GridAdvance(GridCell(kids[i].St, col, row)[1],
                                    GridCell(kids[i].St, col, row)[2], cols, rows)[1],
                        GridAdvance(GridCell(kids[i].St, col, row)[1],
                                    GridCell(kids[i].St, col, row)[2], cols, rows)[2],
                        cols, rows)

\* C13, as stated: for every combination of Columns and of the children's
\* explicit Col / Row and spans (spans of 0 included), every column and row
\* index that GatherSizesGrid and LayoutGrid use lies inside the track
\* sequences (0 <= col < GridSize.X, 0 <= row < GridSize.Y), and neither ends
\* in a run-time panic.
C13_AsStated ==
    Lay = LayoutGrid /\ Len(Kids) > 0 /\ pc # "Built" =>
        /\ pc # "panic"
        /\ CellsInside(Kids, 1, 0, 0, GridSize[1], GridSize[2])

-----------------------------------------------------------------------------
(* The tracks of the grid *)

\* the cells of the children from child i on, the cursor at (col, row); a
\* child that takes no part has no cell
RECURSIVE GridCellsFrom(_, _, _, _, _, _)
GridCellsNext(kids, i, cell, cols, rows) ==
    <<cell>> \o GridCellsFrom(kids, i + 1, GridAdvance(cell[1], cell[2], cols, rows)[1],
                              GridAdvance(cell[1], cell[2], cols, rows)[2], cols, rows)

GridCellsFrom(kids, i, col, row, cols, rows) ==
    IF i > Len(kids) THEN <<>>
    ELSE IF ~IsNode(kids[i])
    THEN <<<<-1, -1>>>> \o GridCellsFrom(kids, i + 1, col, row, cols, rows)
    ELSE GridCellsNext(kids, i, GridCell(kids[i].St, col, row), cols, rows)

GridCells == GridCellsFrom(Kids, 1, 0, 0, GridSize[1], GridSize[2])

\* the children in column c (part = 1) or in row c (part = 2), counted from 0
Members(cells, part, c) == {i \in NodeIdx(Kids) : cells[i][part] = c}

\* the maximum of 0 and of the children's sizes f[i] for i in S
RECURSIVE MaxOver(_, _)
MaxOver(f, S) ==
    IF S = {} THEN Zero
    ELSE RMax(f[CHOOSE i \in S : TRUE], MaxOver(f, S \ {CHOOSE i \in S : TRUE}))

KidNeed(d) == [i \in 1..Len(Kids) |-> Kids[i].LD.Size.Need[d]]

KidPref(d) == [i \in 1..Len(Kids) |-> Kids[i].LD.Size.Pref[d]]

\* the track is as its members make it on dimension d
TrackOf(tr, mem, d) ==
    /\ tr.Size.Need[d] = MaxOver(KidNeed(d), mem)
    /\ tr.Size.Pref[d] = MaxOver(KidPref(d), mem)
    /\ (tr.Size.Max[d] = Rat(-1)) <=> (\E i \in mem : RLt(Kids[i].LD.Size.Max[d], Zero))

TracksOf(cells) ==
    /\ Len(GridData.Col) = GridSize[1]
    /\ Len(GridData.Row) = GridSize[2]
    /\ \A c \in 1..GridSize[1] : TrackOf(GridData.Col[c], Members(cells, 1, c - 1), X)
    /\ \A r \in 1..GridSize[2] : TrackOf(GridData.Row[r], Members(cells, 2, r - 1), Y)

\* C14, as stated: after GatherSizesGrid (the first pass and every later one)
\* each column track's Need.X / Pref.X is the maximum over the children in the
\* column, each row track's Need.Y / Pref.Y the maximum over the children in
\* the row, a column track's Max.X is -1 exactly when some child in the column
\* has Max.X < 0 and a row track's Max.Y is -1 exactly when some child in the
\* row has Max.Y < 0.
C14_AsStated == GatheredGrid => TracksOf(GridCells)

-----------------------------------------------------------------------------
(* The number of columns of the grid *)

\* GatherSizesGrid has set GridSize
GridSized == Lay = LayoutGrid /\ Len(Kids) > 0 /\ pc # "Built"

\* Col + ColSpan of the children that set their own column
ColEnds == {Kids[i].St.Col + Kids[i].St.ColSpan : i \in {j \in NodeIdx(Kids) : Kids[j].St.Col > 0}}

MaxOf(S) == CHOOSE m \in S : \A x \in S : x <= m

\* k is the square root of n, truncated
IsTruncSqrt(k, n) == k * k <= n /\ n < (k + 1) * (k + 1)

\* k is the square root of n, rounded to the nearest integer
IsRoundSqrt(k, n) == (2 * k - 1) * (2 * k - 1) <= 4 * n /\ 4 * n < (2 * k + 1) * (2 * k + 1)

\* C15, as stated: cols is Columns if given, else the maximum of col + colSpan
\* over the children with an explicit column, else round(sqrt(childCount)), and
\* is at least 1.
C15_AsStated ==
    GridSized =>
        /\ GridSize[1] >= 1
        /\ IF Style.Columns > 0 THEN GridSize[1] = Style.Columns
           ELSE IF ColEnds # {} THEN GridSize[1] = MaxOf(ColEnds)
           ELSE IsRoundSqrt(GridSize[1], Len(Kids))

\* C15, amended: cols is the larger of Columns and the maximum of Col + ColSpan
\* over the children with Col > 0; if that is 0, cols is the square root of the
\* number of children truncated to an integer; with Columns >= 0 cols is at
\* least 1 for a non-empty child sequence.
C15_Cols ==
    GridSized =>
        /\ GridSize[1] >= 1
        /\ IF MaxOf({Style.Columns} \cup ColEnds) > 0
           THEN GridSize[1] = MaxOf({Style.Columns} \cup ColEnds)
           ELSE IsTruncSqrt(GridSize[1], Len(Kids))

\* seven children and nothing specified: two columns, where rounding gives three
C15_SevenKids ==
    /\ GridSized
    /\ hist.op = "Size2D"
    /\ Style.Columns = 0
    /\ ColEnds = {}
    /\ Len(Kids) = 7
    /\ GridSize[1] = 2

-----------------------------------------------------------------------------
(* The leading offset of the items along one dimension *)

\* is the base of the allocation along d the preferred sizes (else the needed)
DimUsesPref(d) == ~Exceeds(InnerAvail(d), InnerPref(d))

DimExtra(d) ==
    RMax(RSub(InnerAvail(d), IF DimUsesPref(d) THEN InnerPref(d) ELSE InnerNeed(d)), Zero)

\* no item of lds stretches along d
NoneStretches(lds, part, d) ==
    \/ ~RGt(DimExtra(d), Zero)
    \/ IF DimUsesPref(d)
       THEN \A i \in DOMAIN lds : part[i] => ~RLt(lds[i].Size.Max[d], Zero)
       ELSE NeedCands(lds, part, d) = {}

\* the item that takes part before item i, or 0 if i is the first
PrevIn(part, i) ==
    IF \E j \in 1..(i - 1) : part[j]
    THEN CHOOSE j \in 1..(i - 1) : part[j] /\ \A k \in (j + 1)..(i - 1) : ~part[k]
    ELSE 0

\* the offset the spec gives each alignment
AlignOffset(al, extra) ==
    IF IsAlignMiddle(al) THEN RDiv(extra, Rat(2))
    ELSE IF IsAlignEnd(al) THEN extra
    ELSE Zero

\* every item has its base size, the first item is at the spacing plus the
\* offset off, every other item where the one before it ends
OffsetOnce(lds, part, d, off) ==
    \A i \in DOMAIN lds :
        part[i] =>
            /\ lds[i].AllocSize[d] =
                  IF DimUsesPref(d) THEN lds[i].Size.Pref[d] ELSE lds[i].Size.Need[d]
            /\ lds[i].AllocPosRel[d] =
                  IF PrevIn(part, i) = 0 THEN RAdd(Style.BoxSpace, off)
                  ELSE RAdd(lds[PrevIn(part, i)].AllocPosRel[d],
                            lds[PrevIn(part, i)].AllocSize[d])

OffsetCase(lds, part, d) ==
    NoneStretches(lds, part, d) /\ AlignDim(Style, d) # AlignJustify

LaidGrid == pc = "Laid" /\ Lay = LayoutGrid /\ Len(Kids) > 0

\* C16, as stated: when no candidate stretches and the alignment is not
\* justify, LayoutAll (the children of a row) and LayoutGridDim (the column and
\* row tracks of a grid) apply the extra once as a leading offset: none for a
\* start alignment, half the extra for a middle one, the full extra for an end
\* one, none for any other; every item keeps its base size.
C16_AsStated ==
    /\ LaidRow /\ OffsetCase(LayDatas(Kids), Parts(Kids), X) =>
           OffsetOnce(LayDatas(Kids), Parts(Kids), X, AlignOffset(Style.AlignH, DimExtra(X)))
    /\ LaidGrid /\ OffsetCase(GridData.Col, AllTracks(GridData.Col), X) =>
           OffsetOnce(GridData.Col, AllTracks(GridData.Col), X,
                      AlignOffset(Style.AlignH, DimExtra(X)))
    /\ LaidGrid /\ OffsetCase(GridData.Row, AllTracks(GridData.Row), Y) =>
           OffsetOnce(GridData.Row, AllTracks(GridData.Row), Y,
                      AlignOffset(Style.AlignV, DimExtra(Y)))

-----------------------------------------------------------------------------
(* One item in the space of its own *)

\* the base size of an item in avail: pref if it fits, else need
ItemBase(sp, d, avail) == IF Exceeds(avail, sp.Pref[d]) THEN sp.Need[d] ELSE sp.Pref[d]

ItemExtra(sp, d, avail) == RMax(RSub(avail, ItemBase(sp, d, avail)), Zero)

\* the item stretches: there is extra and need is the base, or Max < 0
ItemStretches(sp, d, avail) ==
    /\ RGt(ItemExtra(sp, d, avail), Zero)
    /\ Exceeds(avail, sp.Pref[d]) \/ RLt(sp.Max[d], Zero)

\* the item is at off + the offset of its alignment, with its base size
Aligned(k, d, avail, off) ==
    /\ k.LD.AllocSize[d] = ItemBase(k.LD.Size, d, avail)
    /\ k.LD.AllocPosRel[d] =
          RAdd(off, AlignOffset(AlignDim(k.St, d), ItemExtra(k.LD.Size, d, avail)))

\* the item is at off, the extra added to its base size
Grown(k, d, avail, off) ==
    /\ k.LD.AllocSize[d] = RAdd(ItemBase(k.LD.Size, d, avail), ItemExtra(k.LD.Size, d, avail))
    /\ k.LD.AllocPosRel[d] = off

\* the claim about one item that does not stretch
SingleStated(k, d, avail, off) ==
    ~ItemStretches(k.LD.Size, d, avail) => Aligned(k, d, avail, off)

\* the same with justify as a stretch
SingleOf(k, d, avail, off) ==
    IF ItemStretches(k.LD.Size, d, avail) \/ AlignDim(k.St, d) = AlignJustify
    THEN Grown(k, d, avail, off)
    ELSE Aligned(k, d, avail, off)

\* the dimensions LayoutSingle works on
SingleDims == IF Lay = LayoutRow THEN {Y} ELSE IF Lay = LayoutCol THEN {X} ELSE {X, Y}

\* the track of child i on dimension d
TrackAt(cells, i, d) ==
    IF d = X THEN GridData.Col[cells[i][1] + 1] ELSE GridData.Row[cells[i][2] + 1]

LaidSingle == pc = "Laid" /\ Lay \in {LayoutRow, LayoutCol, LayoutStacked}

\* C17, as stated: LayoutSingleImpl resolves each item on its own against the
\* avail (the container's in LayoutSingle, the cell's track in LayoutGrid); when
\* the item does not stretch the extra only moves it, by its own alignment
\* (start: spc, middle: spc + extra/2, end: spc + extra), and its size stays
\* the base size, for every alignment mode.
C17_AsStated ==
    /\ LaidSingle =>
          \A i \in NodeIdx(Kids) : \A d \in SingleDims :
              SingleStated(Kids[i], d, InnerAvail(d), Style.BoxSpace)
    /\ LaidGrid =>
          \A i \in NodeIdx(Kids) : \A d \in {X, Y} :
              SingleStated(Kids[i], d, TrackAt(GridCells, i, d).AllocSize[d],
                           TrackAt(GridCells, i, d).AllocPosRel[d])

\* C17, amended: the same for every alignment mode but justify; an item that
\* stretches (extra > 0 and need is the base or Max < 0) and an item aligned
\* justify stay at the leading position and grow by the extra.
C17_Single ==
    /\ LaidSingle =>
          \A i \in NodeIdx(Kids) : \A d \in SingleDims :
              SingleOf(Kids[i], d, InnerAvail(d), Style.BoxSpace)
    /\ LaidGrid =>
          \A i \in NodeIdx(Kids) : \A d \in {X, Y} :
              SingleOf(Kids[i], d, TrackAt(GridCells, i, d).AllocSize[d],
                       TrackAt(GridCells, i, d).AllocPosRel[d])

\* a child aligned justify in a row higher than its pref: it fills the height
C17_JustifyGrows ==
    /\ LaidSingle
    /\ Lay = LayoutRow
    /\ \E i \in NodeIdx(Kids) :
          /\ Kids[i].St.AlignV = AlignJustify
          /\ ~ItemStretches(Kids[i].LD.Size, Y, InnerAvail(Y))
          /\ Kids[i].LD.Size.Pref.Y = Rat(15)
          /\ Kids[i].LD.AllocSize.Y = InnerAvail(Y)
          /\ InnerAvail(Y) = Rat(40)

-----------------------------------------------------------------------------
(* The partition of a SplitView *)

\* SplitView.Layout2D has just laid out at least one child
SvLaid == pc = "Laid" /\ hist.op = "Layout2D" /\ Len(Kids) >= 1

\* what is left of the split axis without the handles
Remaining ==
    RSub(LayData.AllocSize[Style.Dim], RMul(HandleSize, Rat(Len(Kids) - 1)))

SplitSize(i) == Kids[i].LD.AllocSize[Style.Dim]

SplitPos(i) == Kids[i].LD.AllocPosRel[Style.Dim]

\* the sizes of the children in S, a handle added to each if withHandle, added
\* up in the order of the children
RECURSIVE SizeSum(_, _)
SizeSum(S, withHandle) ==
    IF S = {} THEN Zero
    ELSE RAdd(SizeSum(S \ {LastOf(S)}, withHandle),
              IF withHandle THEN RAdd(SplitSize(LastOf(S)), HandleSize)
              ELSE SplitSize(LastOf(S)))

\* child i has its share of the split axis after the children before it, and
\* the whole of the other axis
SplitPlaced(i) ==
    /\ SplitSize(i) = RMul(Splits[i], Remaining)
    /\ SplitPos(i) = SizeSum({j \in NodeIdx(Kids) : j < i}, TRUE)
    /\ Kids[i].LD.AllocSize[OtherDim(Style.Dim)] = LayData.AllocSize[OtherDim(Style.Dim)]
    /\ Kids[i].LD.AllocPosRel[OtherDim(Style.Dim)] = Zero

\* children i and j, both with some extent, share no point of the split axis
Apart(i, j) ==
    RGt(SplitSize(i), Zero) /\ RGt(SplitSize(j), Zero) =>
        RLe(RAdd(SplitPos(i), SplitSize(i)), SplitPos(j))

\* the sizes of the children and the handles between them, added up
SplitTotal ==
    RAdd(SizeSum(DOMAIN Kids, FALSE), RMul(HandleSize, Rat(Len(Kids) - 1)))

\* the magnitude of a
RAbs(a) == IF RLt(a, Zero) THEN RNeg(a) ELSE a

\* the magnitudes of sq added up
RECURSIVE MagSum(_)
MagSum(sq) ==
    IF Len(sq) = 0 THEN Zero
    ELSE RAdd(MagSum(SubSeq(sq, 1, Len(sq) - 1)), RAbs(sq[Len(sq)]))

\* a and b differ by no more than tol of scale
Near(a, b, tol, scale) == RLe(RAbs(RSub(a, b)), RMul(tol, scale))

\* one part in 10^9, for the sum of the shares
ShareTol == Norm(1, 1000000000)

\* one part in 10^8, for the sum of the sizes
TotalTol == Norm(1, 100000000)

\* the shares sum to 1 up to rounding: within one part in 10^9 of their
\* magnitudes
SharesSumToOne == Near(SeqSum(Splits), One, ShareTol, MagSum(Splits))

\* the magnitudes of what goes into the total: the sizes, the handles and
\* AllocSize[Dim]
SplitMagnitude ==
    RAdd(RAdd(MagSum([i \in DOMAIN Kids |-> SplitSize(i)]),
              RMul(HandleSize, Rat(Len(Kids) - 1))),
         RAbs(LayData.AllocSize[Style.Dim]))

\* the placement of the children that take part, which C18 and its amended
\* form have in common
SplitPlacement ==
    /\ Len(Splits) = Len(Kids)
    /\ \A i \in NodeIdx(Kids) :
          SplitPlaced(i) /\ Kids[i].LD.Size = hist.pre[i].LD.Size

\* no two children that take part overlap
NoOverlap == \A i, j \in NodeIdx(Kids) : i < j => Apart(i, j)

\* no child that takes part has a negative size
NoNegativeSize == \A i \in NodeIdx(Kids) : RGe(SplitSize(i), Zero)

\* a child that is no 2D node is passed over: it has no allocation
SplitSkipped ==
    \A i \in DOMAIN Kids \ NodeIdx(Kids) : Kids[i].LD = hist.pre[i].LD

\* C18, as stated: SplitView.Layout2D with N children gives child i Splits[i] *
\* remaining on the split axis, remaining = AllocSize[Dim] - (N-1) * handle
\* width, and the whole AllocSize on the other axis at position 0; child i
\* starts at the sum over the children j before it of size_j + handle width;
\* the sizes and the N-1 handles add up exactly to AllocSize[Dim]; no two
\* children overlap; the children's Need, Pref and Max play no part and are
\* left as they were.
C18_AsStated ==
    SvLaid =>
        /\ SplitPlacement
        /\ NoOverlap
        /\ SplitTotal = LayData.AllocSize[Style.Dim]

\* C18, amended: SplitView.Layout2D with N children gives each child i that is
\* a 2D node Splits[i] * remaining on the split axis, remaining =
\* AllocSize[Dim] - (N-1) * handle width, and the whole AllocSize on the other
\* axis at position 0; a child that is no 2D node is passed over, with no
\* allocation; a child that takes part starts at the sum over the children j
\* before it that take part of size_j + handle width; no two children overlap
\* when no size is negative; the children's Need, Pref and Max play no part
\* and are left as they were; and when every child is a 2D node and the shares
\* sum to 1 up to rounding, the sizes and the N-1 handles add up to
\* AllocSize[Dim] up to the rounding of float64: within one part in 10^8 of
\* the magnitudes of the sizes, the handles and AllocSize[Dim].
C18_Partition ==
    SvLaid =>
        /\ SplitPlacement
        /\ SplitSkipped
        /\ NoNegativeSize => NoOverlap
        /\ NodeIdx(Kids) = DOMAIN Kids /\ SharesSumToOne =>
              Near(SplitTotal, LayData.AllocSize[Style.Dim], TotalTol, SplitMagnitude)

\* the share of each of three children when none is set
Third == RDiv(Rat(1), Rat(3))

\* C18, a case: three children with even shares in a height of 120; each gets
\* a third of 100, the second starts a handle after the first, and the sizes
\* and the two handles add up to a little less than 120
C18_Thirds ==
    /\ SvLaid
    /\ Style.Dim = Y
    /\ NodeIdx(Kids) = {1, 2, 3}
    /\ Splits = <<Third, Third, Third>>
    /\ LayData.AllocSize = Vec(60, 120)
    /\ \A i \in 1..3 : Kids[i].LD.AllocSize = NewVec2D(Rat(60), RMul(Third, Rat(100)))
    /\ Kids[2].LD.AllocPosRel = NewVec2D(Zero, RAdd(RMul(Third, Rat(100)), Rat(10)))
    /\ RLt(SplitTotal, Rat(120))
    /\ SharesSumToOne

\* a case: the first or the last of three children is no 2D node; the other
\* two get a third of 100 each, and the sizes and the two handles stay well
\* below 120
C18_SkippedChild ==
    /\ SvLaid
    /\ Len(Kids) = 3
    /\ NodeIdx(Kids) # DOMAIN Kids
    /\ Splits = <<Third, Third, Third>>
    /\ LayData.AllocSize[Style.Dim] = Rat(120)
    /\ RLt(SplitTotal, Rat(90))

\* a case: a share of +Inf was set; the shares are no numbers any more, and
\* neither are the sizes
C18_SharesLost ==
    /\ SvLaid
    /\ NodeIdx(Kids) = DOMAIN Kids
    /\ \E i \in DOMAIN Splits : Splits[i] = NaN
    /\ ~SharesSumToOne
    /\ SplitTotal = NaN

\* a case: shares of 3 and -1 were set for the first two of three children
\* with even shares; the second has a negative size, and the third starts
\* inside the first
C18_Overlap ==
    /\ SvLaid
    /\ NodeIdx(Kids) = {1, 2, 3}
    /\ RLt(SplitSize(2), Zero)
    /\ RGt(SplitSize(3), Zero)
    /\ RLt(SplitPos(3), RAdd(SplitPos(1), SplitSize(1)))
    /\ SharesSumToOne

\* a case: shares of 3 and -1 were set for two children in a width of 60; the
\* first gets 75, the second -25 from 85 on
C18_NegativeShare ==
    /\ SvLaid
    /\ Style.Dim = X
    /\ NodeIdx(Kids) = {1, 2}
    /\ LayData.AllocSize = Vec(60, 120)
    /\ Kids[1].LD.AllocSize = Vec(75, 120)
    /\ Kids[2].LD.AllocSize = Vec(-25, 120)
    /\ Kids[2].LD.AllocPosRel = Vec(85, 0)

\* three sized children, one of them stretchy, shares (0, 1, 0) of a height of
\* 120: the handles take 20, the second child gets 100 from 10 on and the third
\* starts at 120
C18_MiddleTakesAll ==
    /\ SvLaid
    /\ Style.Dim = Y
    /\ Len(Kids) = 3
    /\ NodeIdx(Kids) = {1, 2, 3}
    /\ Kids[1].LD.Size.Pref.Y = Rat(30)
    /\ Kids[2].LD.Size.Pref.Y = Rat(10)
    /\ Splits = <<Zero, Rat(1), Zero>>
    /\ LayData.AllocSize = Vec(60, 120)
    /\ Kids[2].LD.AllocSize = Vec(60, 100)
    /\ Kids[2].LD.AllocPosRel = Vec(0, 10)
    /\ Kids[3].LD.AllocPosRel = Vec(0, 120)

-----------------------------------------------------------------------------
(* The aggregation of the gather pass *)

\* GatherSizes has just run on a container with children
GatheredFlat ==
    /\ hist.op = "Size2D"
    /\ pc = "Sized"
    /\ Lay \in {LayoutRow, LayoutCol, LayoutStacked}
    /\ Len(Kids) > 0

\* the sum of the children's sizes f[i] for i in S, in the order of the children
RECURSIVE SumOver(_, _)
SumOver(f, S) ==
    IF S = {} THEN Zero
    ELSE RAdd(SumOver(f, S \ {LastOf(S)}), f[LastOf(S)])

\* the sum along the flow of the container, the maximum across it
KidsAgg(f, d) ==
    IF (Lay = LayoutRow /\ d = X) \/ (Lay = LayoutCol /\ d = Y)
    THEN SumOver(f, NodeIdx(Kids))
    ELSE MaxOver(f, NodeIdx(Kids))

Spc2 == RMul(Rat(2), Style.BoxSpace)

\* the children's aggregate and the spacing
AggStated(f) == NewVec2D(RAdd(KidsAgg(f[X], X), Spc2), RAdd(KidsAgg(f[Y], Y), Spc2))

\* the same, the aggregate no less than the container's own size
AggOwn(f, own) ==
    NewVec2D(RAdd(RMax(own.X, KidsAgg(f[X], X)), Spc2),
             RAdd(RMax(own.Y, KidsAgg(f[Y], Y)), Spc2))

KidNeeds == [d \in {X, Y} |-> KidNeed(d)]

KidPrefs == [d \in {X, Y} |-> KidPref(d)]

\* the container's sizes are need and pref, clamped by UpdateSizes
ClampOf(need, pref) ==
    LayData.Size = UpdateSizes([LayData EXCEPT !.Size.Need = need, !.Size.Pref = pref]).Size

\* C19, as stated: after GatherSizes, before the final clamp, the container's
\* Need and Pref are the sum of the participating children's Need / Pref along
\* the flow (X for a row, Y for a column) and their maximum on the other axis
\* (on both for a stacked container), plus twice the box spacing.
C19_AsStated == GatheredFlat => ClampOf(AggStated(KidNeeds), AggStated(KidPrefs))

\* C19, amended: the sum or maximum of the children counts only where it
\* exceeds the container's own Need / Pref as its style seeds them (Min and
\* Size): Need = max(own Need, aggregate) + 2 * spacing, and Pref likewise.
C19_Aggregate ==
    GatheredFlat => ClampOf(AggOwn(KidNeeds, Style.Min), AggOwn(KidPrefs, Style.Size))

\* a row with spacing 2 and a size of 60 of its own, two children of 10 by 10:
\* Need is 20 + 4 by 10 + 4, Pref is 60 + 4 on both axes
C19_OwnSize ==
    /\ GatheredFlat
    /\ Lay = LayoutRow
    /\ Style.BoxSpace = Rat(2)
    /\ Style.Size = Vec(60, 60)
    /\ Len(Kids) = 2
    /\ \A i \in 1..2 : IsNode(Kids[i]) /\ Kids[i].LD.Size.Need = Vec(10, 10)
                                        /\ Kids[i].LD.Size.Pref = Vec(10, 10)
    /\ LayData.Size.Need = Vec(24, 14)
    /\ LayData.Size.Pref = Vec(64, 64)

-----------------------------------------------------------------------------
(* The container without children *)

\* nothing is allocated, measured or scrolled
NothingLaid ==
    /\ ChildSize = Vec2DZero
    /\ ExtraSize = Vec2DZero
    /\ ~HasHScroll /\ ~HasVScroll
    /\ ~HScroll.exists /\ ~VScroll.exists
    /\ GridSize = <<0, 0>> /\ GridData = NoGrid

\* C20, as stated: after Size2D and Layout2D on a Layout with no children its
\* Need, Pref and ChildSize are all zero, nothing is allocated and no scrollbar
\* flag is set.
C20_AsStated ==
    Len(Kids) = 0 /\ pc = "Laid" =>
        /\ LayData.Size.Need = Vec2DZero
        /\ LayData.Size.Pref = Vec2DZero
        /\ NothingLaid

\* C20, amended: after Size2D, and after Layout2D, on a Layout with no
\* children, Need and Pref are what the container's own style seeds (Min and
\* Size; zero if the style sets none), with no spacing added and no clamp;
\* ChildSize is zero, nothing is allocated and no scrollbar flag is set.
C20_Empty ==
    Len(Kids) = 0 /\ pc # "Built" =>
        /\ pc # "panic"
        /\ LayData.Size.Need = Style.Min
        /\ LayData.Size.Pref = Style.Size
        /\ NothingLaid

\* an empty container with a size of 60 of its own and spacing 2, laid out in
\* 12 by 12: Pref is 60, no scrollbar
C20_EmptySized ==
    /\ Len(Kids) = 0
    /\ pc = "Laid"
    /\ Style.Size = Vec(60, 60)
    /\ Style.BoxSpace = Rat(2)
    /\ LayData.AllocSize = Vec(12, 12)
    /\ LayData.Size.Pref = Vec(60, 60)
    /\ NothingLaid

-----------------------------------------------------------------------------
(* The life of the scrollbars *)

\* the scrollbar sc of dimension d is set for the layout as it is
ScrollSet(sc, d) ==
    /\ sc.exists
    /\ sc.Min = Zero
    /\ sc.Max = RAdd(ChildSize[d], ExtraSize[d])
    /\ sc.Step = Style.FontSize
    /\ sc.PageStep = RMul(Rat(10), sc.Step)
    /\ sc.ThumbVal = RSub(LayData.AllocSize[d], Style.BoxSpace)

\* the scrollbars in use are set
ScrollsInUse ==
    /\ HasHScroll => ScrollSet(HScroll, X)
    /\ HasVScroll => ScrollSet(VScroll, Y)

\* C21, as stated: over repeated layout passes a scrollbar exists from the
\* first pass whose axis overflows, is set at every pass where it is in use
\* (range [0, ChildSize + ExtraSize], page step 10 times the line step, thumb
\* the available extent), and after a pass whose axis no longer needs it, it is
\* destroyed.
C21_AsStated ==
    pc = "Laid" /\ hist.op = "Layout2D" /\ Len(Kids) > 0 =>
        /\ ScrollsInUse
        /\ ~HasHScroll => ~HScroll.exists
        /\ ~HasVScroll => ~VScroll.exists

-----------------------------------------------------------------------------
(* One cell per child *)

\* the number of children that take part before child i
RasterIdx(i) == Cardinality({j \in NodeIdx(Kids) : j < i})

\* the cell of child i in row-major raster order
RasterCell(i) == <<RasterIdx(i) % GridSize[1], RasterIdx(i) \div GridSize[1]>>

RasterCells == [i \in 1..Len(Kids) |-> IF IsNode(Kids[i]) THEN RasterCell(i) ELSE <<-1, -1>>]

\* the track's Need and Pref on d are the maxima over its members
TrackNeedPrefOf(tr, mem, d) ==
    /\ tr.Size.Need[d] = MaxOver(KidNeed(d), mem)
    /\ tr.Size.Pref[d] = MaxOver(KidPref(d), mem)

\* the sizes were aggregated by the cells
AggregatedBy(cells) ==
    /\ \A c \in 1..GridSize[1] : TrackNeedPrefOf(GridData.Col[c], Members(cells, 1, c - 1), X)
    /\ \A r \in 1..GridSize[2] : TrackNeedPrefOf(GridData.Row[r], Members(cells, 2, r - 1), Y)

\* child i was placed in the tracks of its cell, at or after their offsets
PlacedBy(cells, i, d) ==
    /\ SingleOf(Kids[i], d, TrackAt(cells, i, d).AllocSize[d],
                TrackAt(cells, i, d).AllocPosRel[d])
    /\ RGe(Kids[i].LD.AllocPosRel[d], TrackAt(cells, i, d).AllocPosRel[d])

\* C22: in a grid whose children set no column or row of their own,
\* GatherSizesGrid and LayoutGrid put the k-th participating child in cell
\* (k mod cols, k div cols): the cells are inside the grid, no two children
\* share one, the tracks aggregate the sizes of the children of those cells,
\* and each child is placed in the tracks of its cell, its AllocPosRel at or
\* after the column track's X offset and the row track's Y offset.
C22_OneCell ==
    GridSized /\ NoExplicitCells =>
        /\ pc # "panic"
        /\ \A i \in NodeIdx(Kids) : CellInside(RasterCell(i), GridSize[1], GridSize[2])
        /\ \A i, j \in NodeIdx(Kids) : RasterCell(i) = RasterCell(j) => i = j
        /\ AggregatedBy(RasterCells)
        /\ pc = "Laid" => \A i \in NodeIdx(Kids) : \A d \in {X, Y} : PlacedBy(RasterCells, i, d)

\* seven children in three columns, the last one 20 wide: the fifth is in
\* cell (1, 1), the seventh in cell (0, 2), which makes the first column 20 wide
C22_SevenInThree ==
    /\ LaidGrid
    /\ NoExplicitCells
    /\ NodeIdx(Kids) = 1..7
    /\ GridSize = <<3, 3>>
    /\ Style.AlignH = AlignLeft
    /\ Kids[7].LD.Size.Pref = Vec(20, 20)
    /\ GridData.Col[1].Size.Pref.X = Rat(20)
    /\ Kids[5].LD.AllocPosRel = Vec(20, 10)
    /\ Kids[7].LD.AllocPosRel = Vec(0, 20)

-----------------------------------------------------------------------------
(* The divisor of the shares *)

\* the items of lds that stretch along d
DimCands(lds, part, d) ==
    IF ~RGt(DimExtra(d), Zero) THEN {}
    ELSE IF DimUsesPref(d)
    THEN {i \in DOMAIN lds : part[i] /\ RLt(lds[i].Size.Max[d], Zero)}
    ELSE NeedCands(lds, part, d)

\* where the extra is shared among candidates the sum of their Pref is
\* positive, and every share is a number
SharesDefined(lds, part, d) ==
    DimCands(lds, part, d) # {} =>
        /\ RGt(PrefSum(lds, DimCands(lds, part, d), d), Zero)
        /\ \A i \in DimCands(lds, part, d) : lds[i].AllocSize[d] # NaN

\* C23, as stated: whenever LayoutAll (a row along X, a column along Y) or
\* LayoutGridDim (the column and row tracks) shares the extra among stretch
\* candidates, stretchTot, the sum of the candidates' Pref, is strictly
\* positive, so that every share extra * pref / stretchTot is defined.
C23_AsStated ==
    /\ pc = "Laid" /\ Lay = LayoutRow => SharesDefined(LayDatas(Kids), Parts(Kids), X)
    /\ pc = "Laid" /\ Lay = LayoutCol => SharesDefined(LayDatas(Kids), Parts(Kids), Y)
    /\ LaidGrid => /\ SharesDefined(GridData.Col, AllTracks(GridData.Col), X)
                   /\ SharesDefined(GridData.Row, AllTracks(GridData.Row), Y)

-----------------------------------------------------------------------------
(* Max as a bound of the allocation *)

\* the child's allocation along d stays within a positive Max
WithinMax(ld, d) == RGt(ld.Size.Max[d], Zero) => ~RGt(ld.AllocSize[d], ld.Size.Max[d])

\* C24, as stated: for every child whose Max along an axis is positive, the
\* AllocSize that LayoutAll and LayoutSingle assign along that axis (rows,
\* columns and stacked layouts) never exceeds that Max.
C24_AsStated ==
    pc = "Laid" /\ Lay \in {LayoutRow, LayoutCol, LayoutStacked} =>
        \A i \in NodeIdx(Kids) : WithinMax(Kids[i].LD, X) /\ WithinMax(Kids[i].LD, Y)

-----------------------------------------------------------------------------
(* The splits across changes of the child count *)

\* the operations that write Splits
SplitWriters == {"Init2D", "SetSplits", "CollapseChild", "RestoreSplits"}

\* the shares are in the proportions of the values given for them, where the
\* values cover every share and are not all 0
Reflects(vals, splits) ==
    Len(vals) >= Len(splits) /\ SeqSum(SubSeq(vals, 1, Len(splits))) # Zero =>
        \A i, j \in 1..Len(splits) :
            RMul(vals[i], splits[j]) = RMul(vals[j], splits[i])

\* the operation returned with one share per child, summing to 1, in the
\* proportions of the values it was given
SplitsSettled ==
    /\ Len(Splits) = Len(Kids)
    /\ SeqSum(Splits) = One
    /\ hist.op = "SetSplits" => Reflects(hist.arg, Splits)
    /\ hist.op = "RestoreSplits" => Reflects(SavedSplits, Splits)

\* C25, as stated: after any sequence of child additions, Init2D, SetSplits,
\* CollapseChild and RestoreSplits on a SplitView with at least one child,
\* every write into Splits is inside Splits (the operation returns), and the
\* operation ends with as many shares as children, summing to 1, and in the
\* proportions of the values passed to SetSplits or restored from SavedSplits.
C25_AsStated ==
    /\ Len(Kids) >= 1
    /\ hist.op \in SplitWriters
    /\ hist.op = "RestoreSplits" => Len(SavedSplits) > 0
    => Returned /\ SplitsSettled

====
